---- MODULE Spec2Model ----
(***************************************************************************)
(* FocusFlow API (src/unnamed/part_005): the task store, the per-user      *)
(* document (device tokens and preferences), the request handlers          *)
(* (POST/PUT/DELETE /tasks, POST /tasks/:id/notify, POST /tasks/sync) and  *)
(* the once-a-minute reminder job checkAndSendReminders.                   *)
(***************************************************************************)
EXTENDS Integers, Sequences, FiniteSets, TLC

VARIABLES
  tasks,     \* the Task collection: _id -> document
  nextId,    \* the next fresh _id (an ObjectId is never handed out twice)
  users,     \* the User collection: userId -> document (exists = FALSE: none)
  now,       \* Date.now(), in milliseconds
  run,       \* the checkAndSendReminders invocations: run id -> its position
  attempts,  \* history: the sendNotification calls the reminder job has made
  hist       \* history: _id -> who created the task and when, whether a
             \* client request has written or deleted it since

vars == <<tasks, nextId, users, now, run, attempts, hist>>

----------------------------------------------------------------------------
\* Bounds of the model.

MaxTasks == 3
MaxMinute == 2
MaxBatch == 2
MaxReminders == 1
MaxDevices == 2
\* Tasks with coordinates created in SpecGeo.
MaxPlaces == 2

\* const oneMinuteAgo = now - 60000
PollInterval == 60000

\* A field that is undefined or null in the document or in the payload.
Absent == -1
\* latitude / longitude null (the schema default) or not given.
NoCoord == 999
\* title undefined.
NoTitle == "-"
\* localId undefined (reported as null).
NoLocalId == "-"

\* req.user.uid: the identities verifyToken lets in.
Users == {"A", "B"}

\* A well-formed _id that the store never hands out.
UnknownId == MaxTasks + 1
\* The _id values a client can put in a request when the next fresh id is n:
\* any id handed out so far (live or deleted, its own or another user's) and
\* the one never handed out.
ClientIds(n) == (1..(n - 1)) \cup {UnknownId}

----------------------------------------------------------------------------
\* Helper functions.

Get(body, f, d) == IF f \in DOMAIN body THEN body[f] ELSE d

Min(S) == CHOOSE x \in S : \A y \in S : x <= y

\* A validation with open ranges: it rejects the values on the border.
validateCoordinatesOpen(lat, lng) ==
  IF lat # NoCoord /\ (lat <= -90 \/ lat >= 90)
  THEN [valid |-> FALSE, error |-> "Latitude must be between -90 and 90"]
  ELSE IF lng # NoCoord /\ (lng <= -180 \/ lng >= 180)
  THEN [valid |-> FALSE, error |-> "Longitude must be between -180 and 180"]
  ELSE [valid |-> TRUE, error |-> ""]

\* validateCoordinates(lat, lng)
validateCoordinates(lat, lng) ==
  IF lat # NoCoord /\ (lat < -90 \/ lat > 90)
  THEN [valid |-> FALSE, error |-> "Latitude must be between -90 and 90"]
  ELSE IF lng # NoCoord /\ (lng < -180 \/ lng > 180)
  THEN [valid |-> FALSE, error |-> "Longitude must be between -180 and 180"]
  ELSE [valid |-> TRUE, error |-> ""]

\* A new task that is completed when the payload says so.
NewTaskAsGiven(body, userId) ==
  [userId |-> userId,
   title |-> Get(body, "title", NoTitle),
   completed |-> Get(body, "completed", FALSE),
   startTime |-> Get(body, "startTime", Absent),
   reminderOffsetMinutes |-> Get(body, "reminderOffsetMinutes", Absent),
   latitude |-> Get(body, "latitude", NoCoord),
   longitude |-> Get(body, "longitude", NoCoord),
   reminderSent |-> Get(body, "reminderSent", FALSE)]

\* A new task that takes its owner from the payload when it names one.
NewTaskOfPayload(body, userId) ==
  [userId |-> Get(body, "userId", userId),
   title |-> Get(body, "title", NoTitle),
   completed |-> FALSE,
   startTime |-> Get(body, "startTime", Absent),
   reminderOffsetMinutes |-> Get(body, "reminderOffsetMinutes", Absent),
   latitude |-> Get(body, "latitude", NoCoord),
   longitude |-> Get(body, "longitude", NoCoord),
   reminderSent |-> Get(body, "reminderSent", FALSE)]

\* new Task({ ...body, userId, completed: false }) with the schema defaults.
NewTask(body, userId) ==
  [userId |-> userId,
   title |-> Get(body, "title", NoTitle),
   completed |-> FALSE,
   startTime |-> Get(body, "startTime", Absent),
   reminderOffsetMinutes |-> Get(body, "reminderOffsetMinutes", Absent),
   latitude |-> Get(body, "latitude", NoCoord),
   longitude |-> Get(body, "longitude", NoCoord),
   reminderSent |-> Get(body, "reminderSent", FALSE)]

\* An update that keeps the stored document.
KeepStored(task, body) == task

\* The update document of findOneAndUpdate / Object.assign(task, fields):
\* every schema path the payload carries is set, the others are kept.
Assign(task, body) ==
  [userId |-> Get(body, "userId", task.userId),
   title |-> Get(body, "title", task.title),
   completed |-> Get(body, "completed", task.completed),
   startTime |-> Get(body, "startTime", task.startTime),
   reminderOffsetMinutes |->
     Get(body, "reminderOffsetMinutes", task.reminderOffsetMinutes),
   latitude |-> Get(body, "latitude", task.latitude),
   longitude |-> Get(body, "longitude", task.longitude),
   reminderSent |-> Get(body, "reminderSent", task.reminderSent)]

\* A filter on _id alone: the fault of a handler that forgets the owner.
OwnedByAnyone(T, id, userId) == id \in DOMAIN T

\* The filter { _id, userId } of findOne / findOneAndUpdate / findOneAndDelete.
Owned(T, id, userId) == id \in DOMAIN T /\ T[id].userId = userId

\* The store with document id written / removed.
Put(T, id, doc) == [i \in DOMAIN T \cup {id} |-> IF i = id THEN doc ELSE T[i]]
Remove(T, id) == [i \in DOMAIN T \ {id} |-> T[i]]

\* A response. status is the HTTP status; the other fields are empty when
\* the handler does not send them.
Response(status, error, id) ==
  [status |-> status, error |-> error, id |-> id, sent |-> 0, failed |-> 0,
   synced |-> <<>>, errors |-> <<>>]

NotFound == Response(404, "Task not found or not authorized", 0)

----------------------------------------------------------------------------
\* The User document and sendNotification.

NoUser ==
  [exists |-> FALSE, fcmTokens |-> <<>>, notificationEnabled |-> TRUE,
   reminderEnabled |-> TRUE, quietHoursStart |-> Absent,
   quietHoursEnd |-> Absent, lastSyncTime |-> Absent]

\* new User({ userId, ... }) with the schema defaults.
DefaultUser == [NoUser EXCEPT !.exists = TRUE]

\* Quiet hours that never apply.
NeverQuiet(user, currentHour) == FALSE

\* isQuietHours(user), at local hour currentHour. !x is true of undefined
\* and of 0.
isQuietHours(user, currentHour) ==
  IF user.quietHoursStart \in {Absent, 0} \/ user.quietHoursEnd \in {Absent, 0}
  THEN FALSE
  ELSE IF user.quietHoursStart <= user.quietHoursEnd
  THEN currentHour >= user.quietHoursStart /\ currentHour < user.quietHoursEnd
  ELSE currentHour >= user.quietHoursStart \/ currentHour < user.quietHoursEnd

\* Every error code of sendAll taken to mean the token is dead.
AnyFailureCode ==
  {"messaging/invalid-registration-token",
   "messaging/registration-token-not-registered",
   "messaging/internal-error"}

\* The per-token error codes of sendAll that mean the token is dead.
InvalidCodes ==
  {"messaging/invalid-registration-token",
   "messaging/registration-token-not-registered"}

\* A skipped call that is reported as delivered.
SkippedAsSent(reason, U) ==
  [success |-> TRUE, error |-> "", sent |-> 0, failed |-> 0,
   messages |-> 0, users |-> U]

\* return { success: false, error: reason }, before anything is sent.
Skipped(reason, U) ==
  [success |-> FALSE, error |-> reason, sent |-> 0, failed |-> 0,
   messages |-> 0, users |-> U]

\* A catch that reports the call as delivered.
CaughtAsSent(error, messages, U) ==
  [success |-> TRUE, error |-> "", sent |-> messages, failed |-> 0,
   messages |-> messages, users |-> U]

\* catch (error) { return { success: false, error: error.message } }
Caught(error, messages, U) ==
  [success |-> FALSE, error |-> error, sent |-> 0, failed |-> 0,
   messages |-> messages, users |-> U]

\* A result that reports success only when the gateway accepted a message.
BatchResultIfAny(sent, failed, messages, U) ==
  [success |-> sent > 0, error |-> "", sent |-> sent, failed |-> failed,
   messages |-> messages, users |-> U]

\* return { success: true, sent: response.successCount,
\*          failed: response.failureCount }
BatchResult(sent, failed, messages, U) ==
  [success |-> TRUE, error |-> "", sent |-> sent, failed |-> failed,
   messages |-> messages, users |-> U]

\* sendNotification(userId, ...) at local hour `hour`, the gateway answering
\* gw = [throws, codes]: sendAll rejects, or answers codes[i] for token i
\* ("ok" for a success). A gw with a field fault has the store fail:
\* "lookup" in User.findOne, "prune" in the updateOne that pulls the dead
\* tokens. Gives the result, the number of messages handed to sendAll and
\* the User collection after it.
sendNotification(U, userId, hour, gw) ==
  LET user == U[userId] IN
  IF Get(gw, "fault", "none") = "lookup"
  THEN Caught("findOne failed", 0, U)
  ELSE IF ~user.exists \/ ~user.notificationEnabled \/ ~user.reminderEnabled
  THEN Skipped("Notifications disabled for user", U)
  ELSE IF isQuietHours(user, hour)
  THEN Skipped("Quiet hours active", U)
  ELSE IF Len(user.fcmTokens) = 0
  THEN Skipped("No FCM tokens found for user", U)
  ELSE IF gw.throws
  THEN Caught("sendAll failed", Len(user.fcmTokens), U)
  ELSE
    LET n == Len(user.fcmTokens)
        invalidTokens ==
          {user.fcmTokens[i].token : i \in {j \in 1..n : gw.codes[j] \in InvalidCodes}}
        Keep(t) == t.token \notin invalidTokens
        pruned == [user EXCEPT !.fcmTokens = SelectSeq(user.fcmTokens, Keep)]
    IN IF invalidTokens # {} /\ Get(gw, "fault", "none") = "prune"
       THEN Caught("updateOne failed", n, U)
       ELSE
       BatchResult(Cardinality({j \in 1..n : gw.codes[j] = "ok"}),
                   Cardinality({j \in 1..n : gw.codes[j] # "ok"}),
                   n,
                   IF invalidTokens # {} THEN [U EXCEPT ![userId] = pruned] ELSE U)

----------------------------------------------------------------------------
\* The request handlers as functions of the store and the request: what the
\* handler leaves in the store and the response it sends.

\* GET /tasks: Task.find({ userId }).sort({ startTime: 1, _id: -1 }), as the
\* sequence of the _ids found.
\* A sort that puts the older of two tasks with the same startTime first.
RECURSIVE SortIdsOldestFirst(_, _)
SortIdsOldestFirst(T, ids) ==
  IF ids = {} THEN <<>>
  ELSE LET first == CHOOSE i \in ids : \A j \in ids \ {i} :
                      \/ T[i].startTime < T[j].startTime
                      \/ T[i].startTime = T[j].startTime /\ i < j
       IN <<first>> \o SortIdsOldestFirst(T, ids \ {first})

RECURSIVE SortIds(_, _)
SortIds(T, ids) ==
  IF ids = {} THEN <<>>
  ELSE LET first == CHOOSE i \in ids : \A j \in ids \ {i} :
                      \/ T[i].startTime < T[j].startTime
                      \/ T[i].startTime = T[j].startTime /\ i > j
       IN <<first>> \o SortIds(T, ids \ {first})

listTasks(T, userId) == SortIds(T, {id \in DOMAIN T : T[id].userId = userId})

\* POST /tasks
postTask(T, n, userId, body) ==
  LET v == validateCoordinates(Get(body, "latitude", NoCoord),
                               Get(body, "longitude", NoCoord)) IN
  IF ~v.valid
  THEN [tasks |-> T, nextId |-> n, res |-> Response(400, v.error, 0)]
  ELSE [tasks |-> Put(T, n, NewTask(body, userId)), nextId |-> n + 1,
        res |-> Response(201, "", n)]

\* A PUT that tells a task of another user from a missing one (403 against
\* 404), the way src/index.js answers.
putTaskForbidden(T, userId, id, body) ==
  LET v == validateCoordinates(Get(body, "latitude", NoCoord),
                               Get(body, "longitude", NoCoord)) IN
  IF ~v.valid
  THEN [tasks |-> T, res |-> Response(400, v.error, 0)]
  ELSE IF id \notin DOMAIN T
  THEN [tasks |-> T, res |-> NotFound]
  ELSE IF T[id].userId # userId
  THEN [tasks |-> T, res |-> Response(403, "Forbidden", 0)]
  ELSE [tasks |-> Put(T, id, Assign(T[id], body)), res |-> Response(200, "", id)]

\* PUT /tasks/:id
putTask(T, userId, id, body) ==
  LET v == validateCoordinates(Get(body, "latitude", NoCoord),
                               Get(body, "longitude", NoCoord)) IN
  IF ~v.valid
  THEN [tasks |-> T, res |-> Response(400, v.error, 0)]
  ELSE IF Owned(T, id, userId)
  THEN [tasks |-> Put(T, id, Assign(T[id], body)), res |-> Response(200, "", id)]
  ELSE [tasks |-> T, res |-> NotFound]

\* DELETE /tasks/:id
deleteTask(T, userId, id) ==
  IF Owned(T, id, userId)
  THEN [tasks |-> Remove(T, id), res |-> Response(200, "", id)]
  ELSE [tasks |-> T, res |-> NotFound]

\* The answers admin.messaging().sendAll can give for n messages.
Codes == {"ok", "messaging/registration-token-not-registered",
          "messaging/internal-error"}
GatewayAnswers(n, codes) ==
  {[throws |-> TRUE, codes |-> <<>>]}
    \cup {[throws |-> FALSE, codes |-> c] : c \in [1..n -> codes]}

\* req.body.fcmToken missing; req.body.deviceId missing.
NoToken == ""
NoDevice == "-"

\* findIndex(t => t.token === fcmToken || (deviceId && t.deviceId === deviceId)):
\* the first matching record, 0 when there is none.
TokenIndex(fcmTokens, fcmToken, deviceId) ==
  LET hits == {i \in 1..Len(fcmTokens) :
                 \/ fcmTokens[i].token = fcmToken
                 \/ deviceId # NoDevice /\ fcmTokens[i].deviceId = deviceId}
  IN IF hits = {} THEN 0 ELSE Min(hits)

\* POST /users/fcm-token (the updatedAt stamps are left out).
postFcmToken(U, userId, fcmToken, deviceId) ==
  IF fcmToken = NoToken
  THEN [users |-> U, res |-> Response(400, "fcmToken is required", 0)]
  ELSE IF ~U[userId].exists
  THEN [users |-> [U EXCEPT ![userId] =
                     [DefaultUser EXCEPT
                        !.fcmTokens = <<[token |-> fcmToken, deviceId |-> deviceId]>>]],
        res |-> Response(200, "", 0)]
  ELSE LET user == U[userId]
           existingTokenIndex == TokenIndex(user.fcmTokens, fcmToken, deviceId)
       IN
       IF existingTokenIndex > 0
       THEN [users |-> [U EXCEPT ![userId].fcmTokens[existingTokenIndex] =
                          [token |-> fcmToken,
                           deviceId |-> IF deviceId # NoDevice THEN deviceId
                                        ELSE @.deviceId]],
             res |-> Response(200, "", 0)]
       ELSE [users |-> [U EXCEPT ![userId].fcmTokens =
                          Append(@, [token |-> fcmToken, deviceId |-> deviceId])],
             res |-> Response(200, "", 0)]

\* POST /tasks/:id/notify
postNotify(T, U, userId, id, hour, gw) ==
  IF ~Owned(T, id, userId)
  THEN [users |-> U, res |-> NotFound]
  ELSE LET result == sendNotification(U, userId, hour, gw) IN
       [users |-> result.users,
        res |-> IF result.success
                THEN [Response(200, "", id) EXCEPT
                        !.sent = result.sent, !.failed = result.failed]
                ELSE Response(400, result.error, 0)]

\* An _id that is no ObjectId: Task.findOne rejects with a CastError.
MalformedId == -2

\* A pass of the sync loop that looks the task up by _id alone.
SyncItemByIdOnly(acc, item, userId) ==
  LET v == validateCoordinates(Get(item.fields, "latitude", NoCoord),
                               Get(item.fields, "longitude", NoCoord)) IN
  IF ~v.valid
  THEN [acc EXCEPT !.errors = Append(@, [localId |-> item.localId, error |-> v.error])]
  ELSE IF item.id = MalformedId
  THEN [acc EXCEPT !.errors = Append(@, [localId |-> item.localId,
                                         error |-> "Cast to ObjectId failed"])]
  ELSE IF item.id # 0 /\ item.id \in DOMAIN acc.tasks
  THEN [acc EXCEPT
          !.tasks = Put(@, item.id,
                        [Assign(acc.tasks[item.id], item.fields) EXCEPT !.userId = userId]),
          !.synced = Append(@, [localId |-> item.localId, remoteId |-> item.id,
                                status |-> "updated"])]
  ELSE [acc EXCEPT
          !.tasks = Put(@, acc.nextId, NewTask(item.fields, userId)),
          !.nextId = @ + 1,
          !.synced = Append(@, [localId |-> item.localId, remoteId |-> acc.nextId,
                                status |-> "created"])]

\* A pass of the sync loop that never looks the _id up and always creates.
SyncItemAlwaysCreates(acc, item, userId) ==
  LET v == validateCoordinates(Get(item.fields, "latitude", NoCoord),
                               Get(item.fields, "longitude", NoCoord)) IN
  IF ~v.valid
  THEN [acc EXCEPT !.errors = Append(@, [localId |-> item.localId, error |-> v.error])]
  ELSE IF item.id = MalformedId
  THEN [acc EXCEPT !.errors = Append(@, [localId |-> item.localId,
                                         error |-> "Cast to ObjectId failed"])]
  ELSE [acc EXCEPT
          !.tasks = Put(@, acc.nextId, NewTask(item.fields, userId)),
          !.nextId = @ + 1,
          !.synced = Append(@, [localId |-> item.localId, remoteId |-> acc.nextId,
                                status |-> "created"])]

\* One pass of the loop of POST /tasks/sync over item = [localId, id, fields]
\* (id = 0: the item carries no _id), from acc = [tasks, nextId, synced, errors].
\* What the pass throws is caught and reported in errors.
SyncItem(acc, item, userId) ==
  LET v == validateCoordinates(Get(item.fields, "latitude", NoCoord),
                               Get(item.fields, "longitude", NoCoord)) IN
  IF ~v.valid
  THEN [acc EXCEPT !.errors = Append(@, [localId |-> item.localId, error |-> v.error])]
  ELSE IF item.id = MalformedId
  THEN [acc EXCEPT !.errors = Append(@, [localId |-> item.localId,
                                         error |-> "Cast to ObjectId failed"])]
  ELSE IF item.id # 0 /\ Owned(acc.tasks, item.id, userId)
  THEN [acc EXCEPT
          !.tasks = Put(@, item.id,
                        [Assign(acc.tasks[item.id], item.fields) EXCEPT !.userId = userId]),
          !.synced = Append(@, [localId |-> item.localId, remoteId |-> item.id,
                                status |-> "updated"])]
  ELSE [acc EXCEPT
          !.tasks = Put(@, acc.nextId, NewTask(item.fields, userId)),
          !.nextId = @ + 1,
          !.synced = Append(@, [localId |-> item.localId, remoteId |-> acc.nextId,
                                status |-> "created"])]

\* A loop that gives up at the first item that fails.
RECURSIVE SyncLoopUntilError(_, _, _)
SyncLoopUntilError(acc, items, userId) ==
  IF items = <<>> THEN acc
  ELSE LET next == SyncItem(acc, Head(items), userId) IN
       IF next.errors # acc.errors THEN next
       ELSE SyncLoopUntilError(next, Tail(items), userId)

RECURSIVE SyncLoop(_, _, _)
SyncLoop(acc, items, userId) ==
  IF items = <<>> THEN acc
  ELSE SyncLoop(SyncItem(acc, Head(items), userId), Tail(items), userId)

\* A handler that does not record the sync.
KeepLastSync(U, userId, t) == U

\* User.findOneAndUpdate({ userId }, { lastSyncTime: new Date() }, { upsert: true }).
TouchLastSync(U, userId, t) ==
  [U EXCEPT ![userId] =
     [(IF U[userId].exists THEN U[userId] ELSE DefaultUser) EXCEPT !.lastSyncTime = t]]

\* POST /tasks/sync with req.body.tasks = items, an array, at Date.now() = t.
postSync(T, n, U, userId, items, t) ==
  LET out == SyncLoop([tasks |-> T, nextId |-> n, synced |-> <<>>, errors |-> <<>>],
                      items, userId) IN
  [tasks |-> out.tasks, nextId |-> out.nextId,
   users |-> TouchLastSync(U, userId, t),
   res |-> [Response(200, "", 0) EXCEPT !.synced = out.synced, !.errors = out.errors]]

\* A handler that takes whatever req.body.tasks holds for the batch.
postSyncUnchecked(T, n, U, userId, req, t) == postSync(T, n, U, userId, req.tasks, t)

\* POST /tasks/sync with req.body.tasks = req.tasks, which is an array or not
\* (req.array): if (!Array.isArray(tasks)) return 400, before anything else.
postSyncRequest(T, n, U, userId, req, t) ==
  IF ~req.array
  THEN [tasks |-> T, nextId |-> n, users |-> U,
        res |-> Response(400, "tasks must be an array", 0)]
  ELSE postSync(T, n, U, userId, req.tasks, t)

\* cron.schedule("0 8 * * *", sendDailySummary): the local hour of the job.
SummaryHour == 8
DayMs == 24 * 60 * 60 * 1000
\* startOfDay and endOfDay of the day of t (local time taken as UTC).
StartOfDay(t) == (t \div DayMs) * DayMs
EndOfDay(t) == StartOfDay(t) + DayMs - 1

\* The users with an uncompleted task due on the day of t.
SummaryUsers(T, t) ==
  {T[id].userId : id \in {i \in DOMAIN T :
     /\ T[i].startTime # Absent
     /\ T[i].startTime >= StartOfDay(t) /\ T[i].startTime <= EndOfDay(t)
     /\ T[i].completed = FALSE}}

\* sendDailySummary at Date.now() = t, the gateway answering gws[u] to the
\* summary of user u. Each sendNotification touches the document of its own
\* user only. messages[u]: the messages handed to sendAll for u.
sendDailySummary(T, U, t, gws) ==
  LET Sent(u) == sendNotification(U, u, SummaryHour, gws[u]) IN
  [users |-> [u \in DOMAIN U |->
                IF u \in SummaryUsers(T, t) THEN Sent(u).users[u] ELSE U[u]],
   messages |-> [u \in DOMAIN U |->
                   IF u \in SummaryUsers(T, t) THEN Sent(u).messages ELSE 0]]

----------------------------------------------------------------------------
\* The handlers as actions on the store. A handler that would create a task
\* beyond the model's MaxTasks is not taken.

CreateTask(u, body) ==
  LET o == postTask(tasks, nextId, u, body) IN
  /\ o.nextId <= MaxTasks + 1
  /\ tasks' = o.tasks
  /\ nextId' = o.nextId
  /\ UNCHANGED <<users, now, run, attempts>>

UpdateTask(u, id, body) ==
  /\ tasks' = putTask(tasks, u, id, body).tasks
  /\ UNCHANGED <<nextId, users, now, run, attempts>>

DeleteTask(u, id) ==
  /\ tasks' = deleteTask(tasks, u, id).tasks
  /\ UNCHANGED <<nextId, users, now, run, attempts>>

\* A manual notification that marks the reminder of the task as sent.
NotifyNowMarking(u, id, hour, gw) ==
  /\ users' = postNotify(tasks, users, u, id, hour, gw).users
  /\ tasks' = IF postNotify(tasks, users, u, id, hour, gw).res.status = 200
              THEN [tasks EXCEPT ![id].reminderSent = TRUE]
              ELSE tasks
  /\ UNCHANGED <<nextId, now, run, attempts>>

NotifyNow(u, id, hour, gw) ==
  /\ users' = postNotify(tasks, users, u, id, hour, gw).users
  /\ UNCHANGED <<tasks, nextId, now, run, attempts>>

RegisterDevice(u, fcmToken, deviceId) ==
  /\ users' = postFcmToken(users, u, fcmToken, deviceId).users
  /\ UNCHANGED <<tasks, nextId, now, run, attempts>>

DailySummary(gws) ==
  /\ users' = sendDailySummary(tasks, users, now, gws).users
  /\ UNCHANGED <<tasks, nextId, now, run, attempts>>

Reconcile(u, items) ==
  LET o == postSync(tasks, nextId, users, u, items, now) IN
  /\ o.nextId <= MaxTasks + 1
  /\ tasks' = o.tasks
  /\ nextId' = o.nextId
  /\ users' = o.users
  /\ UNCHANGED <<now, run, attempts>>

SyncRequest(u, req) ==
  LET o == postSyncRequest(tasks, nextId, users, u, req, now) IN
  /\ o.nextId <= MaxTasks + 1
  /\ tasks' = o.tasks
  /\ nextId' = o.nextId
  /\ users' = o.users
  /\ UNCHANGED <<now, run, attempts>>

----------------------------------------------------------------------------
\* The reminder job.

RunIds == {1}

Idle == [pc |-> "idle", now |-> Absent, snap |-> <<>>, i |-> 1,
         sentAtStart |-> {}, dispatched |-> {}]

\* The filter of Task.find without its reminderSent condition.
NeedsReminderAgain(doc, t) ==
  /\ doc.reminderOffsetMinutes # Absent
  /\ doc.startTime # Absent /\ doc.startTime > t
  /\ doc.completed = FALSE

\* The filter of Task.find in checkAndSendReminders, at Date.now() = t.
NeedsReminder(doc, t) ==
  /\ doc.reminderOffsetMinutes # Absent
  /\ doc.startTime # Absent /\ doc.startTime > t
  /\ doc.completed = FALSE
  /\ doc.reminderSent # TRUE

\* The documents a find returns, in _id order.
RECURSIVE FindSeq(_, _, _)
FindSeq(T, ids, t) ==
  IF ids = {} THEN <<>>
  ELSE LET id == Min(ids) IN
       IF NeedsReminder(T[id], t)
       THEN <<[id |-> id, doc |-> T[id]]>> \o FindSeq(T, ids \ {id}, t)
       ELSE FindSeq(T, ids \ {id}, t)

\* A window without its lower end: everything whose reminder time has come.
DueOrOverdue(doc, t) ==
  doc.startTime - (doc.reminderOffsetMinutes * 60 * 1000) <= t

\* reminderTime <= now && reminderTime > oneMinuteAgo
Due(doc, t) ==
  LET reminderTime == doc.startTime - (doc.reminderOffsetMinutes * 60 * 1000)
      oneMinuteAgo == t - PollInterval
  IN reminderTime <= t /\ reminderTime > oneMinuteAgo

\* checkAndSendReminders from const now = Date.now() = t to the end of its
\* Task.find. sentAtStart and dispatched are history: the tasks whose stored
\* reminderSent was true then, and those the run has dispatched.
Started(T, t) ==
  [pc |-> "loop", now |-> t, snap |-> FindSeq(T, DOMAIN T, t), i |-> 1,
   sentAtStart |-> {id \in DOMAIN T : T[id].reminderSent},
   dispatched |-> {}]

RunStart(r) ==
  /\ run[r].pc = "idle"
  /\ run' = [run EXCEPT ![r] = Started(tasks, now)]
  /\ UNCHANGED <<tasks, nextId, users, now, attempts>>

\* A save that writes the whole document as the run has read it.
SaveAsRead(T, task) == [T EXCEPT ![task.id] = [task.doc EXCEPT !.reminderSent = TRUE]]

\* task.reminderSent = true; await task.save(): the store writes the one
\* modified path of the document with the task's _id.
SaveSent(T, task) == [T EXCEPT ![task.id].reminderSent = TRUE]

\* One pass of the for loop: the window test and, inside the window,
\* sendNotification and task.save(). save() writes the one modified path,
\* reminderSent, to the document with the task's _id, and rejects when that
\* document is gone: the job's catch then leaves the loop.
RunStep(r, hour, gw) ==
  /\ run[r].pc = "loop"
  /\ run[r].i <= Len(run[r].snap)
  /\ LET task == run[r].snap[run[r].i] IN
     IF Due(task.doc, run[r].now)
     THEN LET result == sendNotification(users, task.doc.userId, hour, gw) IN
          /\ users' = result.users
          /\ attempts' = attempts \cup
               {[id |-> task.id, startTime |-> task.doc.startTime,
                 reminderOffsetMinutes |-> task.doc.reminderOffsetMinutes]}
          /\ IF result.success /\ task.id \in DOMAIN tasks
             THEN tasks' = SaveSent(tasks, task)
             ELSE UNCHANGED tasks
          /\ run' = [run EXCEPT
               ![r].dispatched = @ \cup {task.id},
               ![r].i = IF result.success /\ task.id \notin DOMAIN tasks
                        THEN Len(run[r].snap) + 1 ELSE @ + 1]
     ELSE /\ run' = [run EXCEPT ![r].i = @ + 1]
          /\ UNCHANGED <<tasks, users, attempts>>
  /\ UNCHANGED <<nextId, now>>

\* The loop is over and checkAndSendReminders returns.
RunEnd(r) ==
  /\ run[r].pc = "loop"
  /\ run[r].i > Len(run[r].snap)
  /\ run' = [run EXCEPT ![r] = Idle]
  /\ UNCHANGED <<tasks, nextId, users, now, attempts>>

----------------------------------------------------------------------------
\* Time.

ClockPoints ==
  {t \in {m * PollInterval + d : m \in 0..MaxMinute, d \in {0, PollInterval - 1}} :
     t <= MaxMinute * PollInterval}

Advance ==
  /\ now < MaxMinute * PollInterval
  /\ now' = Min({t \in ClockPoints : t > now})
  /\ UNCHANGED <<tasks, nextId, users, run, attempts>>

----------------------------------------------------------------------------
\* The inputs of the model.

Titles == {"t1", "t2"}

\* A user document with one registered device.
OneDevice ==
  [DefaultUser EXCEPT !.fcmTokens = <<[token |-> "tok1", deviceId |-> "dev1"]>>]
\* The same with quiet hours from 22 to 6.
QuietUser == [OneDevice EXCEPT !.quietHoursStart = 22, !.quietHoursEnd = 6]

SeqsUpTo(S, n) == UNION {[1..k -> S] : k \in 0..n}

Start ==
  /\ tasks = <<>>
  /\ nextId = 1
  /\ now = 0
  /\ run = [r \in RunIds |-> Idle]
  /\ attempts = {}
  /\ hist = <<>>

----------------------------------------------------------------------------
\* Spec: the request handlers under two identities that have both synced
\* before, A with a registered device and B with none.

Bodies ==
  [title : Titles] \cup [title : {"t1"}, userId : Users]
    \cup [title : {"t2"}, latitude : {91}]

SyncBodies == {[title |-> "t2", userId |-> "B"], [title |-> "t1", latitude |-> 91]}

Items(n) == [localId : {"l1"}, id : {0} \cup ClientIds(n), fields : SyncBodies]
Batches(n) == SeqsUpTo(Items(n), MaxBatch)

\* sendAll answers without a dead token.
LiveCodes == {"ok", "messaging/internal-error"}
GwInputs(u) == GatewayAnswers(Len(users[u].fcmTokens), LiveCodes)

Init ==
  /\ Start
  /\ users = [u \in Users |->
                [(IF u = "A" THEN OneDevice ELSE DefaultUser) EXCEPT !.lastSyncTime = 0]]

Next ==
  \/ \E u \in Users, body \in Bodies :
       CreateTask(u, body) /\ UNCHANGED hist
  \/ \E u \in Users, id \in ClientIds(nextId), body \in Bodies :
       UpdateTask(u, id, body) /\ UNCHANGED hist
  \/ \E u \in Users, id \in ClientIds(nextId) :
       DeleteTask(u, id) /\ UNCHANGED hist
  \/ \E u \in Users, id \in ClientIds(nextId), hour \in {10} :
       \E gw \in GwInputs(u) : NotifyNow(u, id, hour, gw) /\ UNCHANGED hist
  \/ \E u \in Users, items \in Batches(nextId) :
       Reconcile(u, items) /\ UNCHANGED hist

Spec == Init /\ [][Next]_vars

----------------------------------------------------------------------------
\* Ownership and sync (Spec). A batch is handled item by item, each item from
\* the store the items before it left, so what holds of every batch of one
\* or two items from every reachable store holds of every batch.

Valid(fields) ==
  validateCoordinates(Get(fields, "latitude", NoCoord),
                      Get(fields, "longitude", NoCoord)).valid

\* The tasks of T that userId owns / does not own.
OwnIds(T, userId) == {id \in DOMAIN T : T[id].userId = userId}
ForeignIds(T, userId) == {id \in DOMAIN T : T[id].userId # userId}

\* T without the tasks that userId does not own: what userId can see of T.
ViewOf(T, userId) == [id \in OwnIds(T, userId) |-> T[id]]

Range(q) == {q[i] : i \in 1..Len(q)}

\* The item carries a server id that is not among the caller's tasks.
Conflict(T, item, userId) == item.id # 0 /\ ~Owned(T, item.id, userId)

\* The batches of one item and of two.
Short(n) == {<<x>> : x \in Items(n)} \cup {<<x, y>> : x \in Items(n), y \in Items(n)}

\* The place in synced of the entry of items[i], a valid item.
SyncedIndex(items, i) == Cardinality({j \in 1..i : Valid(items[j].fields)})

\* What the caller sends next when it has reconciled items and got synced:
\* the same items, each with the remoteId it was given.
Resend(items, synced) ==
  [i \in 1..Len(items) |-> [items[i] EXCEPT !.id = synced[i].remoteId]]

SyncOf(u, items) == postSync(tasks, nextId, users, u, items, now)
CanSync(u, items) == SyncOf(u, items).nextId <= MaxTasks + 1

\* C6: in reconcile(A, items) an item that passes validation and carries a
\* server id that does not exist or belongs to another user's task creates a
\* new task owned by A under a fresh id, different from the supplied one, and
\* is reported "created"; no task of another user changes; and a batch of an
\* item with no id and an item with a foreign id reports "created" twice and
\* "updated" never.
C6_ConflictCreates ==
  \A u \in Users : \A items \in Short(nextId) :
    LET o == SyncOf(u, items) IN
    CanSync(u, items) =>
      /\ \A id \in ForeignIds(tasks, u) :
           id \in DOMAIN o.tasks /\ o.tasks[id] = tasks[id]
      /\ \A i \in 1..Len(items) :
           Conflict(tasks, items[i], u) /\ Valid(items[i].fields) =>
             LET e == o.res.synced[SyncedIndex(items, i)] IN
             /\ e.status = "created"
             /\ e.remoteId # items[i].id
             /\ e.remoteId \notin DOMAIN tasks
             /\ e.remoteId \in DOMAIN o.tasks
             /\ o.tasks[e.remoteId] = NewTask(items[i].fields, u)
      /\ ( /\ Len(items) = 2
           /\ items[1].id = 0 /\ Valid(items[1].fields)
           /\ items[2].id \in ForeignIds(tasks, u) /\ Valid(items[2].fields) )
         => /\ Len(o.res.synced) = 2 /\ o.res.errors = <<>>
            /\ \A k \in 1..2 : o.res.synced[k].status = "created"

\* A task of B exists, and A's batch of an item with no id and an item with
\* B's id is answered "created" twice, B's task as it was.
C6_Witness ==
  \E id \in ForeignIds(tasks, "A") : \E items \in Short(nextId) :
    /\ Len(items) = 2 /\ items[1].id = 0 /\ items[2].id = id
    /\ CanSync("A", items)
    /\ LET o == SyncOf("A", items) IN
       /\ Len(o.res.synced) = 2
       /\ \A k \in 1..2 : o.res.synced[k].status = "created"
       /\ Cardinality(OwnIds(o.tasks, "A")) = Cardinality(OwnIds(tasks, "A")) + 2
       /\ o.tasks[id] = tasks[id]

\* C7: reconciling items and then the same items with the remoteIds of the
\* first response is answered "updated" with the same remoteIds, and the
\* caller has as many tasks after the second call as after the first.
C7_ResyncUpdates ==
  \A u \in Users : \A items \in Short(nextId) :
    LET o1 == SyncOf(u, items) IN
    (CanSync(u, items) /\ o1.res.errors = <<>>) =>
      LET again == Resend(items, o1.res.synced)
          o2 == postSync(o1.tasks, o1.nextId, o1.users, u, again, now)
      IN /\ o2.res.errors = <<>>
         /\ Len(o2.res.synced) = Len(items)
         /\ \A i \in 1..Len(items) :
              /\ o2.res.synced[i].status = "updated"
              /\ o2.res.synced[i].remoteId = o1.res.synced[i].remoteId
         /\ OwnIds(o2.tasks, u) = OwnIds(o1.tasks, u)
         /\ DOMAIN o2.tasks = DOMAIN o1.tasks

\* A has a task, reconciles an item without id, which creates one more, and
\* reconciles it again with the remoteId returned, which updates that one.
C7_Witness ==
  /\ OwnIds(tasks, "A") # {}
  /\ \E item \in Items(nextId) :
       LET o1 == SyncOf("A", <<item>>) IN
       /\ item.id = 0 /\ CanSync("A", <<item>>)
       /\ Len(o1.res.synced) = 1 /\ o1.res.synced[1].status = "created"
       /\ LET o2 == postSync(o1.tasks, o1.nextId, o1.users, "A",
                             Resend(<<item>>, o1.res.synced), now) IN
          /\ o2.res.synced[1].status = "updated"
          /\ Cardinality(OwnIds(o2.tasks, "A")) = Cardinality(OwnIds(tasks, "A")) + 1

\* C8: for users A # B, updateTask, deleteTask, notifyNow and reconcile called
\* by A leave every task owned by B present and unchanged (called with the id
\* of B's task, updateTask, deleteTask and notifyNow find nothing), and
\* listTasks(A) holds no task of B.
C8_ForeignUntouched ==
  \A u \in Users :
    LET theirs == ForeignIds(tasks, u)
        Kept(T) == \A b \in theirs : b \in DOMAIN T /\ T[b] = tasks[b]
    IN
    /\ Range(listTasks(tasks, u)) = OwnIds(tasks, u)
    /\ \A id \in ClientIds(nextId), body \in Bodies :
         LET o == putTask(tasks, u, id, body) IN
         Kept(o.tasks) /\ (id \in theirs => o.res.status # 200)
    /\ \A id \in ClientIds(nextId) :
         LET o == deleteTask(tasks, u, id) IN
         Kept(o.tasks) /\ (id \in theirs => o.res.status # 200)
    /\ \A b \in theirs, hour \in {10}, gw \in GwInputs(u) :
         LET o == postNotify(tasks, users, u, b, hour, gw) IN
         o.res.status # 200 /\ o.users = users
    /\ \A items \in Short(nextId) : Kept(SyncOf(u, items).tasks)

\* B owns a task, A owns another, and A's update, delete and reconcile with
\* the id of B's task find nothing of A's and leave B's task as it was.
C8_Witness ==
  \E b \in OwnIds(tasks, "B") :
    /\ OwnIds(tasks, "A") # {}
    /\ b \notin Range(listTasks(tasks, "A"))
    /\ tasks[b].title = "t1"
    /\ putTask(tasks, "A", b, [title |-> "t2"]).res = NotFound
    /\ putTask(tasks, "A", b, [title |-> "t2"]).tasks = tasks
    /\ deleteTask(tasks, "A", b).res = NotFound
    /\ deleteTask(tasks, "A", b).tasks = tasks
    /\ \E items \in Short(nextId) :
         /\ Len(items) = 1 /\ items[1].id = b /\ Valid(items[1].fields)
         /\ CanSync("A", items)
         /\ SyncOf("A", items).tasks[b] = tasks[b]

\* C9: what updateTask, deleteTask, notifyNow and reconcile answer to a
\* caller and leave in the caller's view of the store is the same whether the
\* id belongs to another user's task or to no task: the NotFound answer for
\* the first three, "created" for reconcile.
C9_ForeignLooksMissing ==
  \A u \in Users : \A b \in ForeignIds(tasks, u) :
    LET gone == Remove(tasks, b) IN
    /\ \A body \in Bodies :
         LET o1 == putTask(tasks, u, b, body)
             o2 == putTask(gone, u, b, body)
         IN /\ o1.res = o2.res
            /\ Valid(body) => o1.res = NotFound
            /\ ViewOf(o1.tasks, u) = ViewOf(o2.tasks, u)
    /\ deleteTask(tasks, u, b).res = NotFound
    /\ deleteTask(gone, u, b).res = NotFound
    /\ ViewOf(deleteTask(tasks, u, b).tasks, u) = ViewOf(deleteTask(gone, u, b).tasks, u)
    /\ \A hour \in {10}, gw \in GwInputs(u) :
         /\ postNotify(tasks, users, u, b, hour, gw).res = NotFound
         /\ postNotify(gone, users, u, b, hour, gw) = postNotify(tasks, users, u, b, hour, gw)
    /\ \A items \in Short(nextId) :
         LET o1 == SyncOf(u, items)
             o2 == postSync(gone, nextId, users, u, items, now)
         IN /\ o1.res = o2.res
            /\ o1.users = o2.users
            /\ ViewOf(o1.tasks, u) = ViewOf(o2.tasks, u)
            /\ \A i \in 1..Len(items) :
                 items[i].id = b /\ Valid(items[i].fields) =>
                   o1.res.synced[SyncedIndex(items, i)].status = "created"

\* A asks for B's task and for an id that belongs to no task, and is answered
\* NotFound both times.
C9_Witness ==
  \E b \in OwnIds(tasks, "B") :
    /\ UnknownId \notin DOMAIN tasks
    /\ putTask(tasks, "A", b, [title |-> "t1"]).res = NotFound
    /\ putTask(tasks, "A", UnknownId, [title |-> "t1"]).res = NotFound
    /\ deleteTask(tasks, "A", b).res = deleteTask(tasks, "A", UnknownId).res
    /\ deleteTask(tasks, "A", b).res = NotFound
    /\ \E gw \in GwInputs("A") :
         postNotify(tasks, users, "A", b, 10, gw).res = NotFound

\* C10: no step changes the userId of a task that is in the store.
C10_OwnerFixed ==
  [][\A id \in DOMAIN tasks \cap DOMAIN tasks' : tasks'[id].userId = tasks[id].userId]_vars

----------------------------------------------------------------------------
\* SpecSched: one user with a registered device, tasks with reminders, and
\* checkAndSendReminders started at any time (whatever starts it).

StartTimes == {MaxMinute * PollInterval}
Offsets == {0, 1}

ReminderBodies ==
  [startTime : StartTimes, reminderOffsetMinutes : Offsets]
    \cup {[title |-> "t1"],
          [startTime |-> MaxMinute * PollInterval, reminderOffsetMinutes |-> 1,
           reminderSent |-> TRUE]}

EditBodies ==
  {[completed |-> TRUE], [reminderSent |-> FALSE],
   [reminderOffsetMinutes |-> 0]}

ReminderItems(n) ==
  [localId : {"l1"}, id : {0} \cup ClientIds(n),
   fields : {[title |-> "t1", reminderSent |-> FALSE]}]

InitSched ==
  /\ Start
  /\ users = [u \in Users |-> IF u = "A" THEN OneDevice ELSE NoUser]

NextSched ==
  \/ \E body \in ReminderBodies :
       CreateTask("A", body) /\ nextId' <= MaxReminders + 1 /\ UNCHANGED hist
  \/ \E id \in ClientIds(nextId), body \in EditBodies :
       UpdateTask("A", id, body) /\ UNCHANGED hist
  \/ \E item \in ReminderItems(nextId) :
       Reconcile("A", <<item>>) /\ nextId' <= MaxReminders + 1 /\ UNCHANGED hist
  \/ \E r \in RunIds : RunStart(r) /\ UNCHANGED hist
  \/ \E r \in RunIds, gw \in GwInputs("A") :
       RunStep(r, 10, gw) /\ UNCHANGED hist
  \/ \E r \in RunIds : RunEnd(r) /\ UNCHANGED hist
  \/ Advance /\ UNCHANGED hist

SpecSched == InitSched /\ [][NextSched]_vars

----------------------------------------------------------------------------
\* SpecCron: the same with cron.schedule("* * * * *", checkAndSendReminders):
\* the job starts at every whole minute, and a run ends before the clock
\* moves on. hist records the creation of each task and whether a request
\* has changed or deleted it since.

Track ==
  hist' = [id \in DOMAIN hist \cup DOMAIN tasks' |->
             IF id \notin DOMAIN hist
             THEN [createdAt |-> now, touched |-> FALSE]
             ELSE IF id \notin DOMAIN tasks' \/ tasks'[id] # tasks[id]
             THEN [hist[id] EXCEPT !.touched = TRUE]
             ELSE hist[id]]

\* The clock moves on once the run in progress has ended, and at a whole
\* minute cron starts the job.
CronClock ==
  /\ \A r \in RunIds : run[r].pc = "idle"
  /\ now < MaxMinute * PollInterval
  /\ now' = Min({t \in ClockPoints : t > now})
  /\ run' = IF now' % PollInterval = 0
            THEN [r \in RunIds |-> Started(tasks, now')]
            ELSE run
  /\ UNCHANGED <<tasks, nextId, users, attempts>>

NextCron ==
  \/ \E body \in ReminderBodies :
       CreateTask("A", body) /\ nextId' <= MaxReminders + 1 /\ Track
  \/ \E id \in ClientIds(nextId), body \in EditBodies :
       UpdateTask("A", id, body) /\ Track
  \/ \E id \in ClientIds(nextId) :
       DeleteTask("A", id) /\ Track
  \/ CronClock /\ UNCHANGED hist
  \/ \E r \in RunIds, gw \in GwInputs("A") :
       RunStep(r, 10, gw) /\ UNCHANGED hist
  \/ \E r \in RunIds : RunEnd(r) /\ UNCHANGED hist

SpecCron == InitSched /\ [][NextCron]_vars

----------------------------------------------------------------------------
\* The reminder job (SpecSched, SpecCron).

reminderTimeOf(doc) == doc.startTime - (doc.reminderOffsetMinutes * 60 * 1000)

\* The task has a start time and a reminder offset of zero minutes or more.
HasReminder(doc) ==
  doc.startTime # Absent /\ doc.reminderOffsetMinutes # Absent
    /\ doc.reminderOffsetMinutes >= 0

\* The first whole minute at or after time t.
MinuteFrom(t) == ((t + PollInterval - 1) \div PollInterval) * PollInterval

\* C1: with the job started every 60000 ms, once the run of the first whole
\* minute at or after reminderTime has ended, an uncompleted task with
\* reminderOffsetMinutes set (0 included), created before its reminderTime and
\* not changed or deleted by a request, has had a dispatch attempt. (Stated
\* of the tasks whose reminderSent is false, the ones with a reminder owed.)
C1_EveryReminderAttempted ==
  \A id \in DOMAIN tasks :
    LET doc == tasks[id] IN
    ( /\ HasReminder(doc) /\ doc.completed = FALSE /\ ~doc.reminderSent
      /\ ~hist[id].touched
      /\ reminderTimeOf(doc) > hist[id].createdAt
      /\ \/ now > MinuteFrom(reminderTimeOf(doc))
         \/ now = MinuteFrom(reminderTimeOf(doc))
              /\ \A r \in RunIds : run[r].pc = "idle" )
    => \E a \in attempts : a.id = id

\* C2: a run of the job that starts while the stored reminderSent of a task
\* is true issues no dispatch for that task.
C2_NoRedispatch ==
  \A r \in RunIds : run[r].dispatched \cap run[r].sentAtStart = {}

\* A run has started and ended while a task that is uncompleted, starts
\* later and is inside the run's window had reminderSent true, and has
\* dispatched nothing for it.
C2_Witness ==
  \E r \in RunIds : \E id \in run[r].sentAtStart \cap DOMAIN tasks :
    /\ run[r].pc = "loop" /\ run[r].i > Len(run[r].snap) /\ run[r].now = now
    /\ tasks[id].completed = FALSE /\ HasReminder(tasks[id])
    /\ tasks[id].startTime > now /\ Due(tasks[id], now)
    /\ tasks[id].reminderSent
    /\ \E a \in attempts : a.id = id
    /\ id \notin run[r].dispatched

\* C3: a run at time t selects for dispatch exactly the uncompleted tasks with
\* reminderSent false, startTime T and reminderOffsetMinutes M >= 0 for which
\* t - 60000 < T - 60000 * M <= t.
C3_WindowIff ==
  [][\A r \in RunIds :
       (run[r].pc = "idle" /\ run'[r].pc = "loop") =>
         \A id \in DOMAIN tasks :
           (HasReminder(tasks[id]) /\ tasks[id].completed = FALSE
              /\ ~tasks[id].reminderSent)
           => ( (now - PollInterval < reminderTimeOf(tasks[id])
                   /\ reminderTimeOf(tasks[id]) <= now)
                <=> \E i \in 1..Len(run'[r].snap) :
                      /\ run'[r].snap[i].id = id
                      /\ Due(run'[r].snap[i].doc, run'[r].now) )]_vars

\* C4: no step changes the reminderSent of a task in the store from true to
\* false.
C4_NeverReverts ==
  [][\A id \in DOMAIN tasks \cap DOMAIN tasks' :
       tasks[id].reminderSent => tasks'[id].reminderSent]_vars

\* C5: a task has reminderSent true only if the job has issued a dispatch
\* attempt for the task with its current startTime and reminderOffsetMinutes.
C5_SentOnlyAfterDispatch ==
  \A id \in DOMAIN tasks :
    tasks[id].reminderSent =>
      [id |-> id, startTime |-> tasks[id].startTime,
       reminderOffsetMinutes |-> tasks[id].reminderOffsetMinutes] \in attempts

----------------------------------------------------------------------------
\* SpecDevices: the Device Registry of one user. A registers devices, creates
\* tasks and asks for notifications; the gateway answers each message with
\* any code.

Tokens == {"tok1", "tok2"}
DeviceIds == {NoDevice, "dev1", "dev2"}

InitDevices ==
  /\ Start
  /\ users = [u \in Users |-> NoUser]

NextDevices ==
  \/ \E fcmToken \in Tokens \cup {NoToken}, deviceId \in DeviceIds :
       /\ RegisterDevice("A", fcmToken, deviceId)
       /\ Len(users'["A"].fcmTokens) <= MaxDevices
       /\ UNCHANGED hist
  \/ \E body \in [title : Titles] :
       CreateTask("A", body) /\ nextId' <= MaxReminders + 1 /\ UNCHANGED hist
  \/ \E id \in ClientIds(nextId) :
       \E gw \in GatewayAnswers(Len(users["A"].fcmTokens), Codes) :
         NotifyNow("A", id, 10, gw) /\ UNCHANGED hist

SpecDevices == InitDevices /\ [][NextDevices]_vars

----------------------------------------------------------------------------
\* The Device Registry (SpecDevices).

TokensOf(user) == {user.fcmTokens[i].token : i \in 1..Len(user.fcmTokens)}

\* The tokens of user whose message the gateway answered with code c in S.
Answered(user, gw, S) ==
  {user.fcmTokens[i].token : i \in {j \in 1..Len(user.fcmTokens) : gw.codes[j] \in S}}

\* C11: after sendNotification has handed the messages to the gateway, a
\* token of the user is gone from the registry if and only if the gateway
\* answered a message for it with invalid-registration-token or
\* registration-token-not-registered; the records of the other tokens stay
\* as they were, and a gateway that rejects the whole call removes nothing.
C11_PruneOnlyInvalid ==
  \A u \in Users :
    \A gw \in GatewayAnswers(Len(users[u].fcmTokens),
                             Codes \cup {"messaging/invalid-registration-token"}) :
      LET user == users[u]
          after == sendNotification(users, u, 10, gw).users
          dead == IF gw.throws THEN {}
                  ELSE Answered(user, gw, {"messaging/invalid-registration-token",
                                           "messaging/registration-token-not-registered"})
          Stays(t) == t.token \notin dead
      IN /\ TokensOf(after[u]) = TokensOf(user) \ dead
         /\ after[u].fcmTokens = SelectSeq(user.fcmTokens, Stays)
         /\ \A v \in Users \ {u} : after[v] = users[v]

\* A holds two tokens; the gateway answers one message with
\* registration-token-not-registered and the other with internal-error: the
\* first token is removed and the second stays.
C11_Witness ==
  /\ Len(users["A"].fcmTokens) = 2
  /\ users["A"].fcmTokens[1].token # users["A"].fcmTokens[2].token
  /\ LET gw == [throws |-> FALSE,
                codes |-> <<"messaging/registration-token-not-registered",
                            "messaging/internal-error">>]
         after == sendNotification(users, "A", 10, gw).users["A"]
     IN /\ Len(after.fcmTokens) = 1
        /\ after.fcmTokens[1] = users["A"].fcmTokens[2]

\* C12: the registry of a user holds no two records with the same token and
\* no two records with the same known deviceId.
C12_NoDuplicateDevice ==
  \A u \in Users :
    \A i, j \in 1..Len(users[u].fcmTokens) :
      i # j =>
        /\ users[u].fcmTokens[i].token # users[u].fcmTokens[j].token
        /\ users[u].fcmTokens[i].deviceId = NoDevice
             \/ users[u].fcmTokens[i].deviceId # users[u].fcmTokens[j].deviceId

----------------------------------------------------------------------------
\* SpecQuiet: A has a device and quiet hours set in the database to any pair
\* of hours (or left unset), and asks for notifications at any hour.

Hours == 0..23
QuietOptions == {Absent} \cup Hours

InitQuiet ==
  /\ Start
  /\ \E s \in QuietOptions, e \in QuietOptions :
       users = [u \in Users |->
                  IF u = "A"
                  THEN [OneDevice EXCEPT !.quietHoursStart = s, !.quietHoursEnd = e]
                  ELSE NoUser]

NextQuiet ==
  \/ \E body \in [title : Titles] :
       CreateTask("A", body) /\ nextId' <= MaxReminders + 1 /\ UNCHANGED hist
  \/ \E id \in ClientIds(nextId), hour \in Hours :
       \E gw \in GatewayAnswers(Len(users["A"].fcmTokens), Codes) :
         NotifyNow("A", id, hour, gw) /\ UNCHANGED hist

SpecQuiet == InitQuiet /\ [][NextQuiet]_vars

\* The gateway accepting every message of user.
AllOk(user) == [throws |-> FALSE, codes |-> [i \in 1..Len(user.fcmTokens) |-> "ok"]]

\* C13: for quietHoursStart s and quietHoursEnd e both present, in 0..23, and
\* every local hour h, sendNotification answers "Quiet hours active" exactly
\* when (s <= e and s <= h < e) or (s > e and (h >= s or h < e)); when either
\* is absent it never does.
C13_QuietWindow ==
  \A h \in Hours :
    LET user == users["A"]
        s == user.quietHoursStart
        e == user.quietHoursEnd
        result == sendNotification(users, "A", h, AllOk(user))
        quiet == ~result.success /\ result.error = "Quiet hours active"
    IN IF s = Absent \/ e = Absent
       THEN ~quiet
       ELSE quiet <=> \/ s <= e /\ s <= h /\ h < e
                      \/ s > e /\ (h >= s \/ h < e)

----------------------------------------------------------------------------
\* SpecPolicy: the user document of A is any of the documents the database
\* can hold (none, preferences on or off, quiet hours 22 to 6 or unset, a
\* device or none); A creates a task whose reminder is due, and the manual
\* notification, the reminder job and the daily summary call sendNotification.

PolicyUsers ==
  {NoUser} \cup
  {[d EXCEPT !.notificationEnabled = n, !.reminderEnabled = r,
             !.quietHoursStart = q[1], !.quietHoursEnd = q[2]] :
     d \in {DefaultUser, OneDevice}, n \in BOOLEAN, r \in BOOLEAN,
     q \in {<<Absent, Absent>>, <<22, 6>>}}

PolicyHours == {10, 23}

DueBody == [title |-> "t1", startTime |-> PollInterval, reminderOffsetMinutes |-> 1]

AnswersFor(u) == GatewayAnswers(Len(users[u].fcmTokens), Codes)

InitPolicy ==
  /\ Start
  /\ \E d \in PolicyUsers : users = [u \in Users |-> IF u = "A" THEN d ELSE NoUser]

NextPolicy ==
  \/ CreateTask("A", DueBody) /\ nextId' <= MaxReminders + 1 /\ UNCHANGED hist
  \/ \E id \in ClientIds(nextId), hour \in PolicyHours :
       \E gw \in AnswersFor("A") : NotifyNow("A", id, hour, gw) /\ UNCHANGED hist
  \/ \E gws \in [Users -> AnswersFor("A") \cup AnswersFor("B")] :
       /\ \A u \in Users : gws[u] \in AnswersFor(u)
       /\ DailySummary(gws)
       /\ UNCHANGED hist
  \/ \E r \in RunIds : RunStart(r) /\ UNCHANGED hist
  \/ \E r \in RunIds, hour \in PolicyHours :
       \E gw \in AnswersFor("A") : RunStep(r, hour, gw) /\ UNCHANGED hist
  \/ \E r \in RunIds : RunEnd(r) /\ UNCHANGED hist

SpecPolicy == InitPolicy /\ [][NextPolicy]_vars

\* The first policy reason that applies to user at hour h, "" when none does.
PolicyReason(user, h) ==
  IF ~user.exists \/ ~user.notificationEnabled \/ ~user.reminderEnabled
  THEN "Notifications disabled for user"
  ELSE IF user.quietHoursStart = 22 /\ user.quietHoursEnd = 6 /\ (h >= 22 \/ h < 6)
  THEN "Quiet hours active"
  ELSE IF Len(user.fcmTokens) = 0
  THEN "No FCM tokens found for user"
  ELSE ""

\* C14: when the user record is absent, notificationEnabled or
\* reminderEnabled is false, quiet hours are active or no device is
\* registered, sendNotification answers not delivered with the reason of the
\* first of these that applies (preferences, then quiet hours, then no
\* devices), hands no message to the gateway and leaves the user documents
\* as they were; otherwise it hands one message per device to the gateway.
C14_PolicySkip ==
  \A u \in Users, h \in PolicyHours :
    \A gw \in AnswersFor(u) :
      LET result == sendNotification(users, u, h, gw) IN
      IF PolicyReason(users[u], h) # ""
      THEN /\ ~result.success
           /\ result.error = PolicyReason(users[u], h)
           /\ result.messages = 0
           /\ result.users = users
      ELSE result.messages = Len(users[u].fcmTokens)

\* A has a task, no device, notifications off and quiet hours 22 to 6; its
\* manual notification at hour 23 is refused for the preferences, the first
\* of the three reasons that apply.
C14_Witness ==
  /\ OwnIds(tasks, "A") # {}
  /\ users["A"].exists /\ ~users["A"].notificationEnabled
  /\ users["A"].quietHoursStart = 22 /\ Len(users["A"].fcmTokens) = 0
  /\ \A id \in OwnIds(tasks, "A") : \A gw \in AnswersFor("A") :
       LET o == postNotify(tasks, users, "A", id, 23, gw) IN
       o.res.status = 400 /\ o.res.error = "Notifications disabled for user"

\* C15: for a user with notificationEnabled true, reminderEnabled false, no
\* quiet hours and a device, who has an uncompleted task due today, the daily
\* summary is still handed to the gateway.
C15_SummaryDespiteReminderOff ==
  \A u \in SummaryUsers(tasks, now) :
    ( /\ users[u].exists /\ users[u].notificationEnabled
      /\ ~users[u].reminderEnabled
      /\ users[u].quietHoursStart = Absent /\ users[u].quietHoursEnd = Absent
      /\ Len(users[u].fcmTokens) > 0 )
    => \A gws \in [Users -> {AllOk(users[u])}] :
         sendDailySummary(tasks, users, now, gws).messages[u] > 0

----------------------------------------------------------------------------
\* Reconcile, item by item (Spec).

\* Items with two correlation ids, with or without a server id (of a task
\* handed out, of none, or malformed), with a payload that passes validation
\* or not.
LabelledItems(n) ==
  [localId : {"l1", "l2"}, id : {0, MalformedId} \cup ClientIds(n), fields : SyncBodies]
LabelledShort(n) ==
  {<<x>> : x \in LabelledItems(n)}
    \cup {<<x, y>> : x \in LabelledItems(n), y \in LabelledItems(n)}

\* The item is rejected by validateCoordinates or by the store.
Fails(item) == ~Valid(item.fields) \/ item.id = MalformedId
Passes(item) == ~Fails(item)

LocalIds(q) == [i \in 1..Len(q) |-> q[i].localId]

\* C16: reconcile answers every item of the batch with exactly one entry:
\* the items that fail (out-of-range latitude or longitude, or an error of
\* the store) in errors, the others in synced, each list in input order; and
\* the store and the synced entries are what the batch without its failing
\* items gives, so a failing item writes nothing and stops no later item.
C16_ItemsIndependent ==
  \A u \in Users : \A items \in LabelledShort(nextId) :
    LET o == SyncOf(u, items)
        good == SyncOf(u, SelectSeq(items, Passes))
    IN CanSync(u, items) =>
         /\ Len(o.res.synced) + Len(o.res.errors) = Len(items)
         /\ LocalIds(o.res.synced) = LocalIds(SelectSeq(items, Passes))
         /\ LocalIds(o.res.errors) = LocalIds(SelectSeq(items, Fails))
         /\ o.tasks = good.tasks
         /\ o.res.synced = good.res.synced
         /\ (\A i \in 1..Len(items) : Fails(items[i])) => o.tasks = tasks

\* A owns a task and reconciles an item with latitude 91 followed by an
\* item without id: the first is reported in errors, the second is created.
C16_Witness ==
  /\ OwnIds(tasks, "A") # {}
  /\ \E items \in LabelledShort(nextId) :
       /\ Len(items) = 2 /\ ~Valid(items[1].fields)
       /\ items[2].id = 0 /\ Valid(items[2].fields)
       /\ CanSync("A", items)
       /\ LET o == SyncOf("A", items) IN
          /\ Len(o.res.errors) = 1 /\ o.res.errors[1].localId = items[1].localId
          /\ Len(o.res.synced) = 1 /\ o.res.synced[1].status = "created"
          /\ DOMAIN o.tasks = DOMAIN tasks \cup {nextId}

\* Payloads of an update, one of them naming another owner.
OverlayFields ==
  {[title |-> "t2", userId |-> "B"], [completed |-> TRUE],
   [title |-> "t1", reminderSent |-> TRUE], [title |-> "t2", latitude |-> 45]}

UpdateItem(id, fields) == [localId |-> "l1", id |-> id, fields |-> fields]

\* doc is old overlaid with fields on the paths of F: a path of F that the
\* payload carries has the payload's value, the other paths of F keep theirs.
Overlaid(doc, old, fields, F) ==
  \A f \in F : doc[f] = IF f \in DOMAIN fields THEN fields[f] ELSE old[f]

\* C18 (as stated): when reconcile finds the id among the caller's tasks,
\* every path the payload carries, userId included, takes the payload's
\* value and every other path keeps its value.
C18_PayloadAlwaysWins ==
  \A u \in Users : \A id \in OwnIds(tasks, u) : \A fields \in OverlayFields :
    LET o == SyncOf(u, <<UpdateItem(id, fields)>>) IN
    /\ o.res.synced[1].status = "updated"
    /\ Overlaid(o.tasks[id], tasks[id], fields, DOMAIN tasks[id])

\* C18 (amended): when reconcile finds the id among the caller's tasks, the
\* task keeps its owner and every other path takes the payload's value when
\* the payload carries it, whatever is stored, and keeps its value when not;
\* when two items of a batch name the same id, the task is the stored one
\* overlaid with the first and then with the second.
C18_LastWriteWins ==
  \A u \in Users : \A id \in OwnIds(tasks, u) : \A fields \in OverlayFields :
    LET o == SyncOf(u, <<UpdateItem(id, fields)>>)
        Paths == DOMAIN tasks[id] \ {"userId"}
    IN /\ o.res.synced = <<[localId |-> "l1", remoteId |-> id, status |-> "updated"]>>
       /\ o.tasks[id].userId = u
       /\ Overlaid(o.tasks[id], tasks[id], fields, Paths)
       /\ \A other \in DOMAIN tasks \ {id} : o.tasks[other] = tasks[other]
       /\ DOMAIN o.tasks = DOMAIN tasks
       /\ \A second \in OverlayFields :
            LET both == SyncOf(u, <<UpdateItem(id, fields), UpdateItem(id, second)>>) IN
            /\ both.tasks[id].userId = u
            /\ Overlaid(both.tasks[id], o.tasks[id], second, Paths)

\* A owns a task titled t1, not completed; reconciling it with the title t2
\* sets the title and leaves the rest, and reconciling {title t2} and then
\* {title t1, reminderSent} in one batch leaves the title t1.
C18_Witness ==
  \E id \in OwnIds(tasks, "A") :
    /\ tasks[id].title = "t1" /\ ~tasks[id].reminderSent
    /\ SyncOf("A", <<UpdateItem(id, [title |-> "t2", userId |-> "B"])>>).tasks[id]
         = [tasks[id] EXCEPT !.title = "t2"]
    /\ SyncOf("A", <<UpdateItem(id, [title |-> "t2", userId |-> "B"]),
                     UpdateItem(id, [title |-> "t1", reminderSent |-> TRUE])>>).tasks[id]
         = [tasks[id] EXCEPT !.reminderSent = TRUE]

\* C19: a reconcile item without server id that passes validation creates
\* one new task, owned by the caller, and is reported "created" with the new
\* id; the same item twice in a batch, same localId, creates two tasks.
C19_NoIdAlwaysCreates ==
  \A u \in Users : \A item \in LabelledItems(nextId) :
    (item.id = 0 /\ Valid(item.fields)) =>
      LET one == SyncOf(u, <<item>>)
          two == SyncOf(u, <<item, item>>)
      IN /\ CanSync(u, <<item>>) =>
              /\ DOMAIN one.tasks = DOMAIN tasks \cup {nextId}
              /\ nextId \notin DOMAIN tasks
              /\ one.tasks[nextId].userId = u
              /\ one.tasks[nextId].title = item.fields.title
              /\ \A id \in DOMAIN tasks : one.tasks[id] = tasks[id]
              /\ one.res.synced = <<[localId |-> item.localId, remoteId |-> nextId,
                                     status |-> "created"]>>
         /\ CanSync(u, <<item, item>>) =>
              /\ Cardinality(DOMAIN two.tasks) = Cardinality(DOMAIN tasks) + 2
              /\ Cardinality(OwnIds(two.tasks, u)) = Cardinality(OwnIds(tasks, u)) + 2
              /\ two.res.synced[1].remoteId # two.res.synced[2].remoteId
              /\ \A k \in 1..2 : two.res.synced[k].status = "created"

\* A already holds two tasks with the same content, and reconciling the
\* id-less item with that content once more creates a third.
C19_Witness ==
  \E i, j \in OwnIds(tasks, "A") : \E item \in LabelledItems(nextId) :
    /\ i # j /\ tasks[i] = tasks[j]
    /\ item.id = 0 /\ Valid(item.fields) /\ CanSync("A", <<item>>)
    /\ NewTask(item.fields, "A") = tasks[i]
    /\ Cardinality(OwnIds(SyncOf("A", <<item>>).tasks, "A")) = 3

----------------------------------------------------------------------------
\* SpecSyncTime: reconcile under a running clock, by A who has a user record
\* and by B who has none yet.

InitSyncTime ==
  /\ Start
  /\ users = [u \in Users |-> IF u = "A" THEN OneDevice ELSE NoUser]

\* Bodies whose tasks is no array: an object that holds items under keys, or
\* nothing.
NotArrays(n) == [array : {FALSE}, tasks : SeqsUpTo(Items(n), 1)]

NextSyncTime ==
  \/ \E u \in Users : \E items \in Batches(nextId) :
       Reconcile(u, items) /\ nextId' <= MaxReminders + 1 /\ UNCHANGED hist
  \/ \E u \in Users : \E req \in NotArrays(nextId) :
       SyncRequest(u, req) /\ UNCHANGED hist
  \/ Advance /\ UNCHANGED hist

SpecSyncTime == InitSyncTime /\ [][NextSyncTime]_vars

\* C17: reconcile of any array, the empty one and one whose items all fail
\* included, leaves the caller with a user record whose lastSyncTime is the
\* instant of the call and whose other fields are those it had (the defaults
\* when there was no record), and leaves the other users alone; the empty
\* array gives empty synced and errors and changes no task.
C17_SyncTimeRecorded ==
  \A u \in Users : \A items \in Batches(nextId) :
    LET o == SyncOf(u, items) IN
    /\ o.users[u].exists
    /\ o.users[u].lastSyncTime = now
    /\ o.users[u] = [(IF users[u].exists THEN users[u] ELSE DefaultUser)
                       EXCEPT !.lastSyncTime = now]
    /\ \A v \in Users \ {u} : o.users[v] = users[v]
    /\ items = <<>> =>
         /\ o.res.synced = <<>> /\ o.res.errors = <<>> /\ o.res.status = 200
         /\ o.tasks = tasks

\* Time has passed, nothing is stored, and B, who had no user record at the
\* start, has one whose lastSyncTime is the current instant: B has just
\* reconciled an empty batch or one whose items all failed; and a batch of
\* failing items sent by A now reports errors only and records the instant.
C17_Witness ==
  /\ now > 0 /\ tasks = <<>>
  /\ users["B"].exists /\ users["B"].fcmTokens = <<>> /\ users["B"].lastSyncTime = now
  /\ users["A"].lastSyncTime # now
  /\ \E items \in Batches(nextId) :
       /\ items # <<>> /\ \A i \in 1..Len(items) : ~Valid(items[i].fields)
       /\ SyncOf("A", items).res.synced = <<>>
       /\ SyncOf("A", items).users["A"].lastSyncTime = now

----------------------------------------------------------------------------
\* SpecGeo: A creates, updates and deletes tasks with coordinates on and
\* beyond the borders of the ranges.

Lats == {-91, -90, 0, 90, 91}
Lngs == {-181, -180, 180, 181}

\* Bodies with both coordinates, one of them, or none.
GeoBodies ==
  [title : {"t1"}] \cup [title : {"t1"}, latitude : Lats]
    \cup [title : {"t1"}, longitude : Lngs]
    \cup [title : {"t1"}, latitude : Lats, longitude : Lngs]

InitGeo ==
  /\ Start
  /\ users = [u \in Users |-> DefaultUser]

NextGeo ==
  \/ \E body \in GeoBodies :
       CreateTask("A", body) /\ nextId' <= MaxPlaces + 1 /\ UNCHANGED hist
  \/ \E id \in ClientIds(nextId), body \in GeoBodies :
       UpdateTask("A", id, body) /\ UNCHANGED hist
  \/ \E id \in ClientIds(nextId) : DeleteTask("A", id) /\ UNCHANGED hist

SpecGeo == InitGeo /\ [][NextGeo]_vars

\* The coordinates the body carries are within [-90, 90] and [-180, 180].
InRange(body) ==
  /\ "latitude" \in DOMAIN body => (body.latitude >= -90 /\ body.latitude <= 90)
  /\ "longitude" \in DOMAIN body => (body.longitude >= -180 /\ body.longitude <= 180)

\* C20: with latitude in [-90, 90] or absent and longitude in [-180, 180] or
\* absent, POST /tasks answers 201 and stores the task with these
\* coordinates, and PUT on a task of the caller answers 200 and stores the
\* coordinates the body carries; with a latitude or longitude outside its
\* range both answer 400 with the validation error and the store is as it was.
C20_CoordinateRanges ==
  \A body \in GeoBodies :
    LET post == postTask(tasks, nextId, "A", body) IN
    /\ IF InRange(body)
       THEN /\ post.res.status = 201
            /\ DOMAIN post.tasks = DOMAIN tasks \cup {nextId}
            /\ post.tasks[nextId].latitude = Get(body, "latitude", NoCoord)
            /\ post.tasks[nextId].longitude = Get(body, "longitude", NoCoord)
       ELSE /\ post.res.status = 400
            /\ post.res.error \in {"Latitude must be between -90 and 90",
                                   "Longitude must be between -180 and 180"}
            /\ post.tasks = tasks /\ post.nextId = nextId
    /\ \A id \in OwnIds(tasks, "A") :
         LET put == putTask(tasks, "A", id, body) IN
         IF InRange(body)
         THEN /\ put.res.status = 200
              /\ put.tasks[id].latitude = Get(body, "latitude", tasks[id].latitude)
              /\ put.tasks[id].longitude = Get(body, "longitude", tasks[id].longitude)
         ELSE /\ put.res.status = 400
              /\ put.res.error \in {"Latitude must be between -90 and 90",
                                    "Longitude must be between -180 and 180"}
              /\ put.tasks = tasks

\* A task of A is stored at latitude 90 and longitude -180, the borders;
\* moving it to latitude 91 is refused and leaves it where it is, and moving
\* it to latitude -90 is accepted.
C20_Witness ==
  \E id \in OwnIds(tasks, "A") :
    /\ tasks[id].latitude = 90 /\ tasks[id].longitude = -180
    /\ putTask(tasks, "A", id, [title |-> "t1", latitude |-> 91]).res.status = 400
    /\ putTask(tasks, "A", id, [title |-> "t1", latitude |-> 91]).tasks[id] = tasks[id]
    /\ putTask(tasks, "A", id, [title |-> "t1", latitude |-> -90]).tasks[id].latitude = -90

----------------------------------------------------------------------------
\* SpecRetry: the reminder job started at any instant (a tick may be late,
\* missed, or follow another closely) over tasks created with a reminder,
\* the gateway accepting, refusing or rejecting. hist records when each task
\* was created, when the first run after that started, the start times of
\* the last two runs, and every dispatch: the task, the run's now, what
\* sendNotification returned.

RetryBodies ==
  [startTime : {(MaxMinute + 1) * PollInterval},
   reminderOffsetMinutes : 1..(MaxMinute + 1)]

NoHistory == [created |-> <<>>, seen |-> <<>>, prev |-> Absent, last |-> Absent,
              sends |-> {}]

InitRetry ==
  /\ tasks = <<>>
  /\ nextId = 1
  /\ now = 0
  /\ run = [r \in RunIds |-> Idle]
  /\ attempts = {}
  /\ hist = NoHistory
  /\ users = [u \in Users |-> IF u = "A" THEN OneDevice ELSE NoUser]

LogCreate ==
  hist' = [hist EXCEPT !.created = [id \in DOMAIN tasks' |->
                                      IF id \in DOMAIN @ THEN @[id] ELSE now]]

LogStart ==
  hist' = [hist EXCEPT
             !.seen = [id \in DOMAIN tasks |-> IF id \in DOMAIN @ THEN @[id] ELSE now],
             !.prev = hist.last,
             !.last = now]

LogStep(r, hour, gw) ==
  LET task == run[r].snap[run[r].i]
      result == sendNotification(users, task.doc.userId, hour, gw)
  IN hist' = IF Due(task.doc, run[r].now)
             THEN [hist EXCEPT !.sends = @ \cup
                     {[id |-> task.id, at |-> run[r].now,
                       success |-> result.success, sent |-> result.sent,
                       failed |-> result.failed]}]
             ELSE hist

NextRetry ==
  \/ \E body \in RetryBodies :
       CreateTask("A", body) /\ nextId' <= MaxReminders + 1 /\ LogCreate
  \/ \E r \in RunIds : RunStart(r) /\ LogStart
  \/ \E r \in RunIds, gw \in GatewayAnswers(Len(users["A"].fcmTokens), LiveCodes) :
       RunStep(r, 10, gw) /\ LogStep(r, 10, gw)
  \/ \E r \in RunIds : RunEnd(r) /\ UNCHANGED hist
  \/ Advance /\ UNCHANGED hist

SpecRetry == InitRetry /\ [][NextRetry]_vars

SendsOf(id) == {s \in hist.sends : s.id = id}

\* C21: when every dispatch of the job for a task has failed (the
\* dispatcher returned not-delivered, or the gateway accepted none of the
\* messages), the task's reminderSent is false; every dispatch of a run
\* finds the reminderTime inside that run's window (now - 60000, now]; and
\* no run dispatches a task whose reminderTime the window of an earlier run
\* had passed.
C21_FailedStaysUnsent ==
  \A id \in DOMAIN tasks :
    /\ (\A s \in SendsOf(id) : ~s.success \/ s.sent = 0) => ~tasks[id].reminderSent
    /\ \A s \in SendsOf(id) :
         /\ s.at - PollInterval < reminderTimeOf(tasks[id])
         /\ reminderTimeOf(tasks[id]) <= s.at
         /\ hist.seen[id] - PollInterval < reminderTimeOf(tasks[id])

\* C30: when a run has gone through its loop, it has dispatched every task
\* that its find selected (uncompleted, starting later, reminderSent false)
\* and whose reminderTime is after the start of the previous run and not
\* after its own, however far apart the two runs are; and no task that a
\* run has dispatched with success has been dispatched by another run.
C30_DueSincePreviousRun ==
  /\ \A r \in RunIds :
       (run[r].pc = "loop" /\ run[r].i > Len(run[r].snap) /\ hist.prev # Absent) =>
         \A k \in 1..Len(run[r].snap) :
           (hist.prev < reminderTimeOf(run[r].snap[k].doc)
              /\ reminderTimeOf(run[r].snap[k].doc) <= run[r].now)
           => run[r].snap[k].id \in run[r].dispatched
  /\ \A s1, s2 \in hist.sends : (s1.id = s2.id /\ s1.success) => s2.at <= s1.at

\* C22: a task whose reminderTime is at or before now - 60000 at the start of
\* the first run after its creation is dispatched by no run, then or later,
\* and its reminderSent stays false.
C22_PastDueNeverSent ==
  \A id \in DOMAIN hist.seen :
    reminderTimeOf(tasks[id]) <= hist.seen[id] - PollInterval =>
      /\ SendsOf(id) = {}
      /\ \A r \in RunIds : id \notin run[r].dispatched
      /\ ~tasks[id].reminderSent

C22_Witness ==
  \E id \in DOMAIN hist.seen :
    /\ hist.created[id] = PollInterval /\ reminderTimeOf(tasks[id]) = 0
    /\ hist.seen[id] = PollInterval /\ hist.prev >= PollInterval
    /\ hist.last > hist.prev /\ hist.last = now
    /\ NeedsReminder(tasks[id], now)
    /\ \A r \in RunIds : run[r].pc = "idle"
    /\ SendsOf(id) = {} /\ ~tasks[id].reminderSent

----------------------------------------------------------------------------
\* SpecTick: cron starts the job at every whole minute, 0 included, and A,
\* who has a device and a gateway that accepts every message, creates tasks
\* that start in an hour with a reminder 60 minutes ahead. hist records the
\* creation time of each task and the number of ticks since.

RentBody(c) ==
  [title |-> "t1", startTime |-> c + 3600000, reminderOffsetMinutes |-> 60]

InitTick ==
  /\ tasks = <<>>
  /\ nextId = 1
  /\ now = 0
  /\ run = [r \in RunIds |-> Started(<<>>, 0)]
  /\ attempts = {}
  /\ hist = [created |-> <<>>, ticks |-> <<>>]
  /\ users = [u \in Users |-> IF u = "A" THEN OneDevice ELSE NoUser]

LogRent ==
  hist' = [created |-> [id \in DOMAIN tasks' |->
                          IF id \in DOMAIN hist.created THEN hist.created[id] ELSE now],
           ticks |-> [id \in DOMAIN tasks' |->
                        IF id \in DOMAIN hist.ticks THEN hist.ticks[id] ELSE 0]]

LogTick ==
  hist' = [hist EXCEPT !.ticks = [id \in DOMAIN @ |->
                                    IF now' % PollInterval = 0 THEN @[id] + 1 ELSE @[id]]]

NextTick ==
  \/ CreateTask("A", RentBody(now)) /\ LogRent
  \/ CronClock /\ LogTick
  \/ \E r \in RunIds :
       RunStep(r, 10, AllOk(users["A"])) /\ UNCHANGED hist
  \/ \E r \in RunIds : RunEnd(r) /\ UNCHANGED hist

SpecTick == InitTick /\ [][NextTick]_vars

\* C23: a task created at c with startTime c + 3600000 and a reminder 60
\* minutes ahead has been dispatched and has reminderSent true once the
\* first tick after its creation has run, wherever c lies on the grid.
C23_NextTickDispatches ==
  \A id \in DOMAIN tasks :
    (hist.ticks[id] >= 1 /\ \A r \in RunIds : run[r].pc = "idle")
      => /\ \E a \in attempts : a.id = id
         /\ tasks[id].reminderSent

----------------------------------------------------------------------------
\* SpecShared: both users register devices, and A is notified about a task.

InitShared ==
  /\ Start
  /\ users = [u \in Users |-> NoUser]

NextShared ==
  \/ \E u \in Users, fcmToken \in Tokens, deviceId \in {NoDevice, "dev1"} :
       /\ RegisterDevice(u, fcmToken, deviceId)
       /\ Len(users'[u].fcmTokens) <= MaxDevices
       /\ UNCHANGED hist
  \/ \E body \in [title : Titles] :
       CreateTask("A", body) /\ nextId' <= MaxReminders + 1 /\ UNCHANGED hist
  \/ \E id \in ClientIds(nextId) :
       \E gw \in GatewayAnswers(Len(users["A"].fcmTokens), Codes) :
         NotifyNow("A", id, 10, gw) /\ UNCHANGED hist

SpecShared == InitShared /\ [][NextShared]_vars

\* C24: no token is in the registries of two users, so the messages of a
\* dispatch to one user go to no token that another user has registered.
C24_TokenOneUser ==
  \A u, v \in Users :
    u # v => TokensOf(users[u]) \cap TokensOf(users[v]) = {}

----------------------------------------------------------------------------
\* SpecList: both users create, reschedule and delete tasks with and without
\* a start time.

ListBodies == [title : {"t1"}] \cup [title : {"t1"}, startTime : {1000, 2000}]

InitList ==
  /\ Start
  /\ users = [u \in Users |-> DefaultUser]

NextList ==
  \/ \E u \in Users, body \in ListBodies :
       CreateTask(u, body) /\ UNCHANGED hist
  \/ \E u \in Users, id \in ClientIds(nextId), body \in ListBodies :
       UpdateTask(u, id, body) /\ UNCHANGED hist
  \/ \E u \in Users, id \in ClientIds(nextId) :
       DeleteTask(u, id) /\ UNCHANGED hist

SpecList == InitList /\ [][NextList]_vars

\* C25: listTasks(u) holds each task owned by u once and no other task, in
\* ascending order of startTime (a task without startTime before those with
\* one) and, among tasks with the same startTime, in descending order of id.
C25_ListSorted ==
  \A u \in Users :
    LET list == listTasks(tasks, u) IN
    /\ Range(list) = OwnIds(tasks, u)
    /\ Len(list) = Cardinality(OwnIds(tasks, u))
    /\ \A i, j \in 1..Len(list) :
         i < j => \/ tasks[list[i]].startTime < tasks[list[j]].startTime
                  \/ /\ tasks[list[i]].startTime = tasks[list[j]].startTime
                     /\ list[i] > list[j]

\* A owns tasks 1 and 3 starting at 1000 and task 2 starting at 2000, and B
\* owns nothing or something else: A's list is 3, 1, 2.
C25_Witness ==
  /\ OwnIds(tasks, "A") = {1, 2, 3}
  /\ tasks[1].startTime = 1000 /\ tasks[3].startTime = 1000 /\ tasks[2].startTime = 2000
  /\ listTasks(tasks, "A") = <<3, 1, 2>>

----------------------------------------------------------------------------
\* Reconcile with a malformed batch (SpecSyncTime).

\* C26: reconcile with a body whose tasks is not an array answers 400 with a
\* validation error and changes nothing: no task is created or updated, no
\* id is used up, and no user record, the caller's lastSyncTime included, is
\* created or modified.
C26_NotArrayRejected ==
  \A u \in Users : \A req \in NotArrays(nextId) :
    LET o == postSyncRequest(tasks, nextId, users, u, req, now) IN
    /\ o.res.status = 400
    /\ o.res.error = "tasks must be an array"
    /\ o.tasks = tasks
    /\ o.nextId = nextId
    /\ o.users = users

\* A has synced at an earlier instant and B never; a body that holds, not
\* in an array, an item that an array would have had created is refused for
\* both, and B still has no user record.
C26_Witness ==
  /\ users["A"].lastSyncTime # Absent /\ users["A"].lastSyncTime < now
  /\ ~users["B"].exists
  /\ \E req \in NotArrays(nextId) :
       /\ Len(req.tasks) = 1 /\ req.tasks[1].id = 0 /\ Valid(req.tasks[1].fields)
       /\ DOMAIN SyncOf("B", req.tasks).tasks # DOMAIN tasks
       /\ \A u \in Users :
            /\ postSyncRequest(tasks, nextId, users, u, req, now).res.status = 400
            /\ postSyncRequest(tasks, nextId, users, u, req, now).users = users

----------------------------------------------------------------------------
\* SpecOverlap: two runs of the reminder job in progress at once (a run that
\* outlasts its minute, or two server processes on the same store), each at
\* its own place in its own loop.

Instances == {1, 2}

InitOverlap ==
  /\ tasks = <<>>
  /\ nextId = 1
  /\ now = 0
  /\ run = [r \in Instances |-> Idle]
  /\ attempts = {}
  /\ hist = <<>>
  /\ users = [u \in Users |-> IF u = "A" THEN OneDevice ELSE NoUser]

NextOverlap ==
  \/ CreateTask("A", DueBody) /\ nextId' <= MaxReminders + 1 /\ UNCHANGED hist
  \/ \E r \in Instances : RunStart(r) /\ UNCHANGED hist
  \/ \E r \in Instances, gw \in GwInputs("A") :
       RunStep(r, 10, gw) /\ UNCHANGED hist
  \/ \E r \in Instances : RunEnd(r) /\ UNCHANGED hist
  \/ Advance /\ UNCHANGED hist

SpecOverlap == InitOverlap /\ [][NextOverlap]_vars

\* C27: of two runs of the job in progress at the same time, at most one
\* dispatches the reminder of a given task.
C27_OneRunDispatches ==
  \A r1, r2 \in Instances :
    r1 # r2 => run[r1].dispatched \cap run[r2].dispatched = {}

----------------------------------------------------------------------------
\* SpecRace: requests of A arrive while a run of the job is in its loop; the
\* gateway accepts every message. hist is the set of the tasks a request has
\* written since the run in progress read them and before it dispatched them.

RaceBodies == {[title |-> "t2"], [completed |-> TRUE]}
RaceItems(n) == [localId : {"l1"}, id : ClientIds(n), fields : {[title |-> "t2"]}]

InitRace ==
  /\ tasks = <<>>
  /\ nextId = 1
  /\ now = 0
  /\ run = [r \in RunIds |-> Idle]
  /\ attempts = {}
  /\ hist = {}
  /\ users = [u \in Users |-> IF u = "A" THEN OneDevice ELSE NoUser]

\* The tasks a request has just written that a run has read and not yet
\* dispatched.
LogWrite ==
  hist' = hist \cup
    {id \in DOMAIN tasks \cap DOMAIN tasks' :
       /\ tasks'[id] # tasks[id]
       /\ \E r \in RunIds :
            /\ run[r].pc = "loop" /\ id \notin run[r].dispatched
            /\ \E k \in run[r].i..Len(run[r].snap) : run[r].snap[k].id = id}

NextRace ==
  \/ CreateTask("A", DueBody) /\ nextId' <= MaxReminders + 1 /\ UNCHANGED hist
  \/ \E id \in ClientIds(nextId), body \in RaceBodies :
       UpdateTask("A", id, body) /\ LogWrite
  \/ \E item \in RaceItems(nextId) :
       Reconcile("A", <<item>>) /\ nextId' <= MaxReminders + 1 /\ LogWrite
  \/ \E r \in RunIds : RunStart(r) /\ hist' = {}
  \/ \E r \in RunIds : RunStep(r, 10, AllOk(users["A"])) /\ UNCHANGED hist
  \/ \E r \in RunIds : RunEnd(r) /\ UNCHANGED hist
  \/ Advance /\ UNCHANGED hist

SpecRace == InitRace /\ [][NextRace]_vars

\* C29: the step in which a run dispatches a task and persists reminderSent
\* leaves the stored task as the requests completed so far have left it,
\* with reminderSent true and no other field changed, and changes no other
\* task, also when a PUT or a reconcile has written the task since the run
\* read it.
C29_OnlyFlagWritten ==
  [][\A r \in RunIds : \A id \in DOMAIN tasks :
       (id \in run'[r].dispatched /\ id \notin run[r].dispatched) =>
         /\ DOMAIN tasks' = DOMAIN tasks
         /\ tasks'[id].reminderSent
         /\ \A f \in DOMAIN tasks[id] \ {"reminderSent"} : tasks'[id][f] = tasks[id][f]
         /\ \A other \in DOMAIN tasks \ {id} : tasks'[other] = tasks[other]]_vars

\* A request has retitled the task between the run's find and its dispatch;
\* the run has dispatched it, and the stored task has the new title, which
\* the run's copy has not, and reminderSent true.
C29_Witness ==
  \E r \in RunIds : \E id \in hist \cap run[r].dispatched :
    /\ run[r].pc = "loop"
    /\ \E k \in 1..Len(run[r].snap) :
         /\ run[r].snap[k].id = id
         /\ run[r].snap[k].doc.title = "t1"
         /\ ~run[r].snap[k].doc.reminderSent
    /\ tasks[id].title = "t2"
    /\ tasks[id].reminderSent

----------------------------------------------------------------------------
\* SpecPrune: a POST /users/fcm-token and a sendNotification of the same user
\* in progress at once, each in two steps with the store in between: the
\* registration reads the user document and later saves it, the dispatcher
\* reads it and sends, and later pulls the dead tokens. run holds the two
\* calls; hist is the set of tokens the registry owes: those registered,
\* less those a registration has replaced and those a prune was told to pull.

Calls == {"register", "deliver"}
NoCall == [pc |-> "idle"]

\* The gateway reports tok1 as not registered and accepts the others.
DeadTokens == {"tok1"}
AnswerByToken(user) ==
  [throws |-> FALSE,
   codes |-> [i \in 1..Len(user.fcmTokens) |->
                IF user.fcmTokens[i].token \in DeadTokens
                THEN "messaging/registration-token-not-registered" ELSE "ok"]]

ThreeDevices ==
  [DefaultUser EXCEPT !.fcmTokens =
     <<[token |-> "tok1", deviceId |-> "dev1"], [token |-> "tok2", deviceId |-> "dev2"],
       [token |-> "tok3", deviceId |-> "dev3"]>>]

\* An array element that $set has created to fill a gap.
NullRecord == [token |-> NoToken, deviceId |-> NoDevice]

InitPrune ==
  /\ tasks = <<>>
  /\ nextId = 1
  /\ now = 0
  /\ run = [c \in Calls |-> NoCall]
  /\ attempts = {}
  /\ hist = TokensOf(ThreeDevices)
  /\ users = [u \in Users |-> IF u = "A" THEN ThreeDevices ELSE NoUser]

\* POST /users/fcm-token up to its user.save(): User.findOne and the change
\* made to the document in memory, kept as the update save() will send: a
\* $push of the new record, or a $set of the modified paths of the record
\* at existingTokenIndex.
RegisterRead(u, fcmToken, deviceId) ==
  /\ run["register"].pc = "idle"
  /\ users[u].exists
  /\ LET fcmTokens == users[u].fcmTokens
         existingTokenIndex == TokenIndex(fcmTokens, fcmToken, deviceId)
     IN IF existingTokenIndex > 0
        THEN /\ run' = [run EXCEPT !["register"] =
                  [pc |-> "save", kind |-> "set", index |-> existingTokenIndex,
                   token |-> fcmToken,
                   setToken |-> fcmTokens[existingTokenIndex].token # fcmToken,
                   deviceId |-> deviceId,
                   setDeviceId |-> deviceId # NoDevice
                        /\ fcmTokens[existingTokenIndex].deviceId # deviceId]]
             /\ hist' = (hist \ {fcmTokens[existingTokenIndex].token}) \cup {fcmToken}
        ELSE /\ run' = [run EXCEPT !["register"] =
                  [pc |-> "save", kind |-> "push", index |-> 0, token |-> fcmToken,
                   setToken |-> TRUE, deviceId |-> deviceId, setDeviceId |-> TRUE]]
             /\ hist' = hist \cup {fcmToken}
  /\ UNCHANGED <<tasks, nextId, users, now, attempts>>

\* The array after $set of the paths fcmTokens.<index>.token and .deviceId
\* that op has modified: on the element that is at that index now, or on a
\* new element when the array ends before it.
SetAt(fcmTokens, op) ==
  LET padded == [i \in 1..(IF op.index > Len(fcmTokens) THEN op.index ELSE Len(fcmTokens)) |->
                   IF i <= Len(fcmTokens) THEN fcmTokens[i] ELSE NullRecord]
  IN [padded EXCEPT ![op.index] =
        [token |-> IF op.setToken THEN op.token ELSE @.token,
         deviceId |-> IF op.setDeviceId THEN op.deviceId ELSE @.deviceId]]

\* user.save() of POST /users/fcm-token.
RegisterSave(u) ==
  /\ run["register"].pc = "save"
  /\ LET op == run["register"] IN
     users' = [users EXCEPT ![u].fcmTokens =
                 IF op.kind = "push"
                 THEN Append(@, [token |-> op.token, deviceId |-> op.deviceId])
                 ELSE SetAt(@, op)]
  /\ run' = [run EXCEPT !["register"] = NoCall]
  /\ UNCHANGED <<tasks, nextId, now, attempts, hist>>

\* sendNotification up to the end of its sendAll: invalidTokens is collected
\* from the document read at the start.
DeliverSend(u, hour) ==
  /\ run["deliver"].pc = "idle"
  /\ LET result == sendNotification(users, u, hour, AnswerByToken(users[u])) IN
     run' = [run EXCEPT !["deliver"] =
               [pc |-> "prune",
                invalidTokens |-> TokensOf(users[u]) \ TokensOf(result.users[u])]]
  /\ UNCHANGED <<tasks, nextId, users, now, attempts, hist>>

\* User.updateOne({ userId }, { $pull: { fcmTokens: { token: { $in: invalidTokens } } } }),
\* skipped when invalidTokens is empty.
DeliverPrune(u) ==
  /\ run["deliver"].pc = "prune"
  /\ LET invalidTokens == run["deliver"].invalidTokens
         Keep(t) == t.token \notin invalidTokens
     IN /\ users' = [users EXCEPT ![u].fcmTokens = SelectSeq(@, Keep)]
        /\ hist' = hist \ invalidTokens
  /\ run' = [run EXCEPT !["deliver"] = NoCall]
  /\ UNCHANGED <<tasks, nextId, now, attempts>>

NextPrune ==
  \/ \E fcmToken \in {"tok4", "tok5"}, deviceId \in {NoDevice, "dev2"} :
       /\ RegisterRead("A", fcmToken, deviceId)
       /\ run'["register"].kind = "push" => Len(users["A"].fcmTokens) <= MaxDevices
  \/ RegisterSave("A")
  \/ DeliverSend("A", 10)
  \/ DeliverPrune("A")

SpecPrune == InitPrune /\ [][NextPrune]_vars

\* C28: when a registration and a dispatch of the same user have both
\* completed, however their steps interleaved, the registry holds every
\* token that was registered and that neither a later registration of its
\* device replaced nor the gateway reported invalid.
C28_PruneSparesOthers ==
  (\A c \in Calls : run[c].pc = "idle") => hist \subseteq TokensOf(users["A"])

----------------------------------------------------------------------------
\* The dispatcher with a failing store or gateway: the job over several due
\* reminders of a user with two devices, and POST /tasks/:id/notify.

TwoDevices ==
  [DefaultUser EXCEPT !.fcmTokens = <<[token |-> "tok1", deviceId |-> "dev1"],
                                      [token |-> "tok2", deviceId |-> "dev2"]>>]

StoreFaults == {"lookup", "prune"}

\* The answers of the gateway, and the same with a failing store.
FaultyAnswers(n) ==
  GatewayAnswers(n, Codes)
    \cup {[throws |-> FALSE, codes |-> c, fault |-> f] :
            c \in [1..n -> Codes], f \in StoreFaults}

InitFault ==
  /\ tasks = <<>>
  /\ nextId = 1
  /\ now = 0
  /\ run = [r \in RunIds |-> Idle]
  /\ attempts = {}
  /\ hist = {}
  /\ users = [u \in Users |-> IF u = "A" THEN TwoDevices ELSE NoUser]

\* History: the tasks of which a dispatch of the job met a rejected pruning
\* write.
LogFault(r, hour, gw) ==
  LET task == run[r].snap[run[r].i]
      result == sendNotification(users, task.doc.userId, hour, gw)
  IN hist' = IF Due(task.doc, run[r].now) /\ result.error = "updateOne failed"
             THEN hist \cup {task.id}
             ELSE hist

NextFault ==
  \/ CreateTask("A", DueBody) /\ nextId' <= MaxTasks + 1 /\ UNCHANGED hist
  \/ \E id \in ClientIds(nextId) :
       \E gw \in FaultyAnswers(Len(users["A"].fcmTokens)) :
         NotifyNow("A", id, 10, gw) /\ UNCHANGED hist
  \/ \E r \in RunIds : RunStart(r) /\ UNCHANGED hist
  \/ \E r \in RunIds, gw \in FaultyAnswers(Len(users["A"].fcmTokens)) :
       RunStep(r, 10, gw) /\ LogFault(r, 10, gw)
  \/ \E r \in RunIds : RunEnd(r) /\ UNCHANGED hist

SpecFault == InitFault /\ [][NextFault]_vars

\* The call of sendNotification for "A" under gw meets a rejection: of the
\* user lookup, of sendAll, or of the write that pulls the dead tokens.
Rejects(gw) ==
  \/ Get(gw, "fault", "none") = "lookup"
  \/ /\ users["A"].fcmTokens # <<>>
     /\ \/ gw.throws
        \/ /\ Get(gw, "fault", "none") = "prune"
           /\ \E j \in DOMAIN gw.codes :
                gw.codes[j] \in {"messaging/registration-token-not-registered",
                                 "messaging/invalid-registration-token"}

\* C31: when the user lookup, the gateway call or the write that prunes the
\* tokens is rejected, sendNotification returns success = false with the
\* reason and leaves the User collection as it was; POST /tasks/:id/notify
\* then answers 400 with that reason; and a run of the job has dispatched
\* every due task before its position in the loop, whatever the earlier
\* dispatches returned.
C31_DeliverNeverRaises ==
  /\ \A gw \in FaultyAnswers(Len(users["A"].fcmTokens)) :
       Rejects(gw) =>
         LET result == sendNotification(users, "A", 10, gw) IN
         /\ result.success = FALSE
         /\ result.error \in {"findOne failed", "sendAll failed", "updateOne failed"}
         /\ result.users = users
         /\ \A id \in DOMAIN tasks :
              LET o == postNotify(tasks, users, "A", id, 10, gw) IN
              /\ o.res.status = 400
              /\ o.res.error = result.error
              /\ o.users = users
  /\ \A r \in RunIds :
       run[r].pc = "loop" =>
         \A k \in 1..(run[r].i - 1) :
           k <= Len(run[r].snap) /\ Due(run[r].snap[k].doc, run[r].now)
             => run[r].snap[k].id \in run[r].dispatched

\* A run has gone through two due tasks: the dispatch of the first was
\* rejected by the pruning write and left it unsent, the second is sent.
C31_Witness ==
  \E r \in RunIds :
    /\ run[r].pc = "loop" /\ run[r].i > Len(run[r].snap)
    /\ Len(run[r].snap) >= 2
    /\ run[r].snap[1].id \in hist
    /\ ~tasks[run[r].snap[1].id].reminderSent
    /\ tasks[run[r].snap[2].id].reminderSent
    /\ {run[r].snap[1].id, run[r].snap[2].id} \subseteq run[r].dispatched

----------------------------------------------------------------------------
\* SpecSuppressed: the job and the clock, with the owner's delivery
\* suppressed at first: A has no user document, no device, quiet hours from
\* 22 to 6, or notifications or reminders off. A device can be registered and
\* the local hour of a dispatch is 23 or 10; the gateway accepts every
\* message. hist is the history of SpecRetry.

SuppressedUsers ==
  {NoUser, DefaultUser, QuietUser,
   [OneDevice EXCEPT !.notificationEnabled = FALSE],
   [OneDevice EXCEPT !.reminderEnabled = FALSE]}

\* Reminders due at 0 and at 60000.
SuppressedBodies ==
  {b \in RetryBodies : b.startTime - b.reminderOffsetMinutes * 60 * 1000 <= PollInterval}

InitSuppressed ==
  /\ tasks = <<>>
  /\ nextId = 1
  /\ now = 0
  /\ run = [r \in RunIds |-> Idle]
  /\ attempts = {}
  /\ hist = NoHistory
  /\ \E d \in SuppressedUsers : users = [u \in Users |-> IF u = "A" THEN d ELSE NoUser]

NextSuppressed ==
  \/ \E body \in SuppressedBodies :
       CreateTask("A", body) /\ nextId' <= MaxReminders + 1 /\ LogCreate
  \/ RegisterDevice("A", "tok1", "dev1") /\ UNCHANGED hist
  \/ \E r \in RunIds : RunStart(r) /\ LogStart
  \/ \E r \in RunIds, hour \in PolicyHours :
       RunStep(r, hour, AllOk(users["A"])) /\ LogStep(r, hour, AllOk(users["A"]))
  \/ \E r \in RunIds : RunEnd(r) /\ UNCHANGED hist
  \/ Advance /\ UNCHANGED hist

SpecSuppressed == InitSuppressed /\ [][NextSuppressed]_vars

\* C33: every dispatch of the job for a task is inside the task's window,
\* reminderTime <= now < reminderTime + 60000; and when each of them was
\* skipped for the owner's policy, so that nothing went to the gateway, the
\* task's reminderSent is false, whatever the owner's state has become.
C33_SuppressedNeverDelivered ==
  \A id \in DOMAIN tasks :
    /\ \A s \in SendsOf(id) :
         /\ reminderTimeOf(tasks[id]) <= s.at
         /\ s.at < reminderTimeOf(tasks[id]) + PollInterval
    /\ (\A s \in SendsOf(id) : s.sent = 0) => ~tasks[id].reminderSent

\* The one dispatch of a task's reminder was skipped; its window is over, A
\* now has a device and a call at hour 10 would deliver; a run after the
\* window has ended with the task still selected by its find and unsent.
C33_Witness ==
  \E id \in DOMAIN tasks :
    /\ SendsOf(id) # {} /\ \A s \in SendsOf(id) : ~s.success /\ s.sent = 0
    /\ now >= reminderTimeOf(tasks[id]) + PollInterval
    /\ hist.last = now /\ hist.seen[id] < now
    /\ \A r \in RunIds : run[r].pc = "idle"
    /\ NeedsReminder(tasks[id], now)
    /\ sendNotification(users, "A", 10, AllOk(users["A"])).sent = 1
    /\ ~tasks[id].reminderSent

----------------------------------------------------------------------------
\* SpecAbort: a run of the job over several due reminders of A, who has a
\* device and a gateway that accepts every message, while A deletes tasks.

InitAbort ==
  /\ Start
  /\ users = [u \in Users |-> IF u = "A" THEN OneDevice ELSE NoUser]

NextAbort ==
  \/ CreateTask("A", DueBody) /\ nextId' <= MaxTasks + 1 /\ UNCHANGED hist
  \/ \E id \in ClientIds(nextId) : DeleteTask("A", id) /\ UNCHANGED hist
  \/ \E r \in RunIds : RunStart(r) /\ UNCHANGED hist
  \/ \E r \in RunIds : RunStep(r, 10, AllOk(users["A"])) /\ UNCHANGED hist
  \/ \E r \in RunIds : RunEnd(r) /\ UNCHANGED hist

SpecAbort == InitAbort /\ [][NextAbort]_vars

\* C34: when a run of the job has left its loop, it has dispatched every
\* task of its find whose reminderTime is inside its window, also those that
\* follow a task whose save was rejected.
C34_SaveFailureGoesOn ==
  \A r \in RunIds :
    (run[r].pc = "loop" /\ run[r].i > Len(run[r].snap)) =>
      \A k \in DOMAIN run[r].snap :
        Due(run[r].snap[k].doc, run[r].now) => run[r].snap[k].id \in run[r].dispatched

----------------------------------------------------------------------------
\* SpecDone: tasks created, updated and reconciled with payloads that carry
\* completed. hist is history: asked holds, with the path taken, the tasks
\* created from a payload with completed = true; updated holds the tasks into
\* which PUT or the update path of the sync has written completed = true.

DoneBodies == [title : {"t1"}] \cup [title : {"t1"}, completed : BOOLEAN]

DoneItems(n) == [localId : {"l1"}, id : {0} \cup ClientIds(n), fields : DoneBodies]

InitDone ==
  /\ tasks = <<>>
  /\ nextId = 1
  /\ now = 0
  /\ run = [r \in RunIds |-> Idle]
  /\ attempts = {}
  /\ hist = [asked |-> {}, updated |-> {}]
  /\ users = [u \in Users |-> DefaultUser]

Wanted(body) == Get(body, "completed", FALSE)

LogPost(body) ==
  hist' = IF Wanted(body)
          THEN [hist EXCEPT !.asked = @ \cup {[id |-> nextId, path |-> "post"]}]
          ELSE hist

LogPut(u, id, body) ==
  hist' = IF putTask(tasks, u, id, body).res.status = 200 /\ Wanted(body)
          THEN [hist EXCEPT !.updated = @ \cup {id}]
          ELSE hist

LogSync(u, item) ==
  LET synced == postSync(tasks, nextId, users, u, <<item>>, now).res.synced IN
  hist' = IF synced = <<>> \/ ~Wanted(item.fields) THEN hist
          ELSE IF synced[1].status = "updated"
          THEN [hist EXCEPT !.updated = @ \cup {item.id}]
          ELSE [hist EXCEPT !.asked = @ \cup
                  {[id |-> nextId, path |-> IF item.id = 0 THEN "sync" ELSE "conflict"]}]

NextDone ==
  \/ \E u \in Users, body \in DoneBodies : CreateTask(u, body) /\ LogPost(body)
  \/ \E id \in ClientIds(nextId), body \in DoneBodies :
       UpdateTask("A", id, body) /\ LogPut("A", id, body)
  \/ \E item \in DoneItems(nextId) :
       Reconcile("A", <<item>>) /\ LogSync("A", item)

SpecDone == InitDone /\ [][NextDone]_vars

\* C35: POST /tasks stores the new task with completed = false whatever the
\* payload carries, and so does POST /tasks/sync for an item without _id and
\* for an item whose _id is no task of the caller; a stored task is
\* completed only when PUT or the update path of the sync has written
\* completed = true into it.
C35_CreatedUncompleted ==
  /\ \A u \in Users, body \in DoneBodies :
       LET o == postTask(tasks, nextId, u, body) IN
       o.res.status = 201 /\ o.tasks[nextId].completed = FALSE
  /\ \A item \in DoneItems(nextId) :
       (item.id = 0 \/ ~Owned(tasks, item.id, "A")) =>
         LET o == postSync(tasks, nextId, users, "A", <<item>>, now) IN
         /\ o.res.synced[1].status = "created"
         /\ o.tasks[nextId].completed = FALSE
  /\ \A id \in DOMAIN tasks : tasks[id].completed => id \in hist.updated
  /\ \A a \in hist.asked : a.id \in DOMAIN tasks /\ a.id \notin hist.updated
                             => ~tasks[a.id].completed

\* Tasks created by a sync item without _id and by a sync item with an
\* unknown _id, both from a payload with completed = true, are stored
\* uncompleted; a task created by POST /tasks from such a payload is
\* completed, after an update has completed it.
C35_Witness ==
  /\ \A path \in {"sync", "conflict"} :
       \E a \in hist.asked : a.path = path /\ ~tasks[a.id].completed
  /\ \E a \in hist.asked :
       a.path = "post" /\ a.id \in hist.updated /\ tasks[a.id].completed

----------------------------------------------------------------------------
\* SpecRegister: two POST /users/fcm-token of A in progress at once, each in
\* two steps with the store in between: User.findOne with the change made
\* to the document in memory, and user.save(). A user document carries its
\* version key here: save() of a pushed record increments it, and save() of
\* a record modified in place asks for the version it has read. A call that
\* has answered waits for the other and both return together, so that two
\* answered calls have both read before either wrote.

Requests == {"first", "second"}

Versioned(d) == [x \in DOMAIN d \cup {"version"} |-> IF x = "version" THEN 0 ELSE d[x]]

InitRegister ==
  /\ tasks = <<>>
  /\ nextId = 1
  /\ now = 0
  /\ run = [c \in Requests |-> NoCall]
  /\ attempts = {}
  /\ hist = <<>>
  /\ \E d \in {NoUser, OneDevice} :
       users = [u \in Users |-> IF u = "A" THEN Versioned(d) ELSE Versioned(NoUser)]

\* Request c up to its user.save(): what save() will send is an insert of a
\* new document, a $push of the new record, or a $set of the modified paths
\* of the record at existingTokenIndex under the version read.
RegisterFind(c, u, fcmToken, deviceId) ==
  /\ run[c].pc = "idle"
  /\ \A d \in Requests : run[d].pc # "done"
  /\ LET user == users[u]
         existingTokenIndex == TokenIndex(user.fcmTokens, fcmToken, deviceId)
         op == [pc |-> "save", token |-> fcmToken, deviceId |-> deviceId,
                version |-> user.version, status |-> 0]
     IN run' = [run EXCEPT ![c] =
          IF ~user.exists
          THEN op @@ [kind |-> "insert", index |-> 0, setToken |-> TRUE,
                      setDeviceId |-> TRUE]
          ELSE IF existingTokenIndex > 0
          THEN op @@ [kind |-> "set", index |-> existingTokenIndex,
                      setToken |-> user.fcmTokens[existingTokenIndex].token # fcmToken,
                      setDeviceId |-> deviceId # NoDevice
                        /\ user.fcmTokens[existingTokenIndex].deviceId # deviceId]
          ELSE op @@ [kind |-> "push", index |-> 0, setToken |-> TRUE,
                      setDeviceId |-> TRUE]]
  /\ UNCHANGED <<tasks, nextId, users, now, attempts>>

\* user.save() of request c and its answer: 200, or 500 from the catch when
\* the save is rejected: an insert by the unique index on userId, a $set
\* under a version that is no longer the stored one.
RegisterWrite(c, u) ==
  /\ run[c].pc = "save"
  /\ LET op == run[c]
         record == [token |-> op.token, deviceId |-> op.deviceId]
         rejected == \/ op.kind = "insert" /\ users[u].exists
                     \/ op.kind = "set" /\ users[u].version # op.version
     IN /\ users' =
             IF rejected THEN users
             ELSE IF op.kind = "insert"
             THEN [users EXCEPT ![u] =
                     [Versioned(DefaultUser) EXCEPT !.fcmTokens = <<record>>]]
             ELSE IF op.kind = "push"
             THEN [users EXCEPT ![u].fcmTokens = Append(@, record),
                                ![u].version = @ + 1]
             ELSE [users EXCEPT ![u].fcmTokens = SetAt(@, op)]
        /\ run' = [run EXCEPT ![c] =
                     [op EXCEPT !.pc = "done",
                                !.status = IF rejected THEN 500 ELSE 200]]
  /\ UNCHANGED <<tasks, nextId, now, attempts>>

\* The answers are out and the requests are over.
RegisterReturn ==
  /\ \E c \in Requests : run[c].pc = "done"
  /\ \A c \in Requests : run[c].pc # "save"
  /\ run' = [c \in Requests |-> NoCall]
  /\ UNCHANGED <<tasks, nextId, users, now, attempts>>

NextRegister ==
  \/ \E c \in Requests, fcmToken \in {"tok1", "tok2"}, deviceId \in {NoDevice, "dev2"} :
       /\ RegisterFind(c, "A", fcmToken, deviceId)
       /\ run'[c].kind = "push" => Len(users["A"].fcmTokens) < MaxDevices
       /\ UNCHANGED hist
  \/ \E c \in Requests : RegisterWrite(c, "A") /\ UNCHANGED hist
  \/ RegisterReturn /\ UNCHANGED hist

SpecRegister == InitRegister /\ [][NextRegister]_vars

\* The records of the registry that hold token.
RecordsOf(user, token) == {i \in DOMAIN user.fcmTokens : user.fcmTokens[i].token = token}

\* C36: when two POST /users/fcm-token of a user have both read the user
\* before either has saved, and both have answered, both answers are 200 and
\* the token of each is in exactly one record of the user's registry.
C36_BothRegistered ==
  (\A c \in Requests : run[c].pc = "done") =>
    \A c \in Requests :
      /\ run[c].status = 200
      /\ Cardinality(RecordsOf(users["A"], run[c].token)) = 1

----------------------------------------------------------------------------
\* SpecManual: A, who has a device and quiet hours from 22 to 6, creates
\* tasks with a reminder due at 60000 and asks for notifications of them by
\* POST /tasks/:id/notify, at hour 23 or 10, while the job runs and the
\* clock advances; the gateway accepts every message. hist is history: the
\* manual notifications made before the reminderTime of their task, each
\* with whether it was delivered.

ManualBody ==
  [title |-> "t1", startTime |-> 2 * PollInterval, reminderOffsetMinutes |-> 1]

InitManual ==
  /\ tasks = <<>>
  /\ nextId = 1
  /\ now = 0
  /\ run = [r \in RunIds |-> Idle]
  /\ attempts = {}
  /\ hist = {}
  /\ users = [u \in Users |-> IF u = "A" THEN QuietUser ELSE NoUser]

LogNotify(u, id, hour, gw) ==
  hist' = IF Owned(tasks, id, u) /\ now < reminderTimeOf(tasks[id])
          THEN hist \cup {[id |-> id,
                           delivered |-> postNotify(tasks, users, u, id, hour, gw).res.status = 200]}
          ELSE hist

NextManual ==
  \/ CreateTask("A", ManualBody) /\ nextId' <= MaxReminders + 1 /\ UNCHANGED hist
  \/ \E id \in ClientIds(nextId), hour \in PolicyHours :
       /\ NotifyNow("A", id, hour, AllOk(users["A"]))
       /\ LogNotify("A", id, hour, AllOk(users["A"]))
  \/ \E r \in RunIds : RunStart(r) /\ UNCHANGED hist
  \/ \E r \in RunIds : RunStep(r, 10, AllOk(users["A"])) /\ UNCHANGED hist
  \/ \E r \in RunIds : RunEnd(r) /\ UNCHANGED hist
  \/ Advance /\ UNCHANGED hist

SpecManual == InitManual /\ [][NextManual]_vars

\* C37: a stored task has the fields it was created with, whatever manual
\* notifications were made for it, delivered or skipped; its reminderSent is
\* true only when the job has dispatched it; and a run that has left its
\* loop has dispatched every task of its find that was inside its window.
C37_NotifyKeepsTask ==
  /\ \A id \in DOMAIN tasks :
       /\ tasks[id] = [NewTask(ManualBody, "A") EXCEPT !.reminderSent = tasks[id].reminderSent]
       /\ tasks[id].reminderSent => \E a \in attempts : a.id = id
  /\ \A h \in hist :
       now < reminderTimeOf(tasks[h.id]) => NeedsReminder(tasks[h.id], now)
  /\ \A r \in RunIds :
       (run[r].pc = "loop" /\ run[r].i > Len(run[r].snap)) =>
         \A k \in DOMAIN run[r].snap :
           Due(run[r].snap[k].doc, run[r].now) => run[r].snap[k].id \in run[r].dispatched

\* A task was notified by hand before its reminderTime, once delivered and
\* once skipped for quiet hours; the job then dispatched its reminder.
C37_Witness ==
  \E id \in DOMAIN tasks :
    /\ [id |-> id, delivered |-> TRUE] \in hist
    /\ [id |-> id, delivered |-> FALSE] \in hist
    /\ \E r \in RunIds : id \in run[r].dispatched
    /\ tasks[id].reminderSent

====
